---------------------------- MODULE Spec2Model ----------------------------
(***************************************************************************)
(* Future<T> / Promise<T> (src/implementation/future.h) as a state machine. *)
(*                                                                         *)
(* Objects live at locations (addresses).  A Promise at location p embeds  *)
(* its std::optional<Future<T>> future_ at location Emb(p); Futures handed *)
(* out by GetFuture live at the free-standing locations.  The back         *)
(* pointers promise_ptr_ / future_ptr_ are locations, nullptr is 0.        *)
(* std::optional<T> is a sequence of length at most one.  T is a scalar    *)
(* (int in the unit tests): a moved-from std::optional<T> stays engaged    *)
(* and keeps its value.                                                    *)
(*                                                                         *)
(* internal::FutureActiveState is the class of the DCHECK_IS_ON() build    *)
(* (future.h:25-53): the #else branch of that conditional leaves           *)
(* `namespace internal` unopened, so it is the only build of the header.   *)
(* CHECK and DCHECK failures abort the process: `crashed` records which.   *)
(*                                                                         *)
(* Fields id and mf of an object, and the variables calls, settled, cbs    *)
(* and last, are history: no operation of the program reads them.  The     *)
(* variables nextId, own and moves count what the caller has done so far   *)
(* and only bound the runs.                                                *)
(*                                                                         *)
(* sharedPromise and sharedFuture are the State objects of SharedPromise   *)
(* and SharedFuture (shared_promise.h, shared_future.h), remote holds the  *)
(* task queues of the sequences other than the constructing one, and frame *)
(* is the frame of a suspending function (future.h:384-595).               *)
(***************************************************************************)
EXTENDS Integers, Sequences, FiniteSets, TLC

\* ------------------------------------------------------------- bounds
\* Promise constructions in one run (by the caller or inside a combinator).
MaxPairs == 3
\* Promise objects (moved-from ones included) the caller holds at a time.
NP == 2
\* Future objects (moved-from ones included) the caller holds at a time.
NF == 2
\* Callables (continuations, transforms) the caller hands in during one run.
MaxCb == 2
\* Values a producer passes to SetValue are 1..MaxVal.
MaxVal == 2
\* Move constructions the caller performs in one run.
MaxMoves == 1
\* Pairs the caller constructs itself (Promise<T> promise; MakeReadyFuture).
MaxOwn == 1
\* Move constructions in one run of the specification of moves (SpecLinks).
MaxLinkMoves == 3

Val == 1..MaxVal

\* Storage: enough Promise locations for every construction plus the
\* temporaries of a combinator, and as many free-standing Future locations.
NPPool == NP + MaxPairs + MaxPairs
NFPool == NF + MaxPairs + MaxPairs
PPool == 1..NPPool
FPool == 1..NFPool
Emb(p) == NFPool + p
AllF == FPool \cup {Emb(p) : p \in PPool}

nullptr == 0

\* Sequences other than the one the objects are made on, each with its own
\* task runner; HomeRunner is the task runner of the constructing sequence.
NRunners == 2
OtherRunners == 1..NRunners
HomeRunner == 0
Runners == {HomeRunner} \cup OtherRunners

\* ------------------------------------------------------------ callbacks
\* base::OnceCallback<void(T)>.  kind "user" is a caller's continuation k;
\* the other kinds are the bound statics of Future<T>, holding the Promise<U>
\* they were bound with (at location promise) and the caller's callable k.
NullCallback == [kind |-> "null", k |-> 0, promise |-> nullptr]
UserCallback(k) == [kind |-> "user", k |-> k, promise |-> nullptr]
BoundCallback(kind, k, p) == [kind |-> kind, k |-> k, promise |-> p]

\* What a caller's callable does when run.
\*   store        void(T): records the value (the tests' `value = v`)
\*   half         double(int): returns static_cast<double>(v) / 2  (Transform)
\*   ready        Future<bool>(int): returns MakeReadyFuture(true)
\*   pending      Future<int>(int): makes a Promise, keeps it, returns its Future
CbKinds == {"store", "half", "ready", "pending"}

\* The double n / 2, as a fraction in lowest terms (1 / 2 is 0.5).
Half(n) == IF n % 2 = 0 THEN [num |-> n \div 2, den |-> 1] ELSE [num |-> n, den |-> 2]

\* What the callable returns (for a Future<U>(T) callable, what the Future it
\* returns is settled with when the callable settles it itself).
Apply(kind, v) == IF kind = "half" THEN Half(v) ELSE IF kind = "ready" THEN TRUE ELSE v

\* -------------------------------------------------------------- objects
DeadFuture == [live |-> FALSE, value |-> <<>>, promise_ptr |-> nullptr, active |-> FALSE, id |-> 0, mf |-> FALSE]
DeadPromise == [live |-> FALSE, future_ptr |-> nullptr, callback |-> NullCallback, active |-> FALSE, id |-> 0, mf |-> FALSE, bound |-> FALSE]

\* SharedPromise<T>::State: whether one has been made, the location of the
\* Promise its promise_ holds (nullptr once reset), the pair of that Promise,
\* whether the Promise was unsettled when wrapped, the number of
\* SharedPromise handles made for the State, the handles that are alive, and
\* whether the State has been destroyed.
NoSharedPromise == [made |-> FALSE, promise_ |-> nullptr, id |-> 0, fresh |-> FALSE, copies |-> 0, handles |-> {}, destroyed |-> FALSE]

\* SharedFuture<T>::State: whether one has been made, value_ (<<>> while
\* empty), listeners_ (each a callable k and the task runner of the
\* sequence that registered it), the pair of the wrapped Future and, as
\* history, the callables in the order AddListener received them and in the
\* order their RunCompleteCallback tasks were posted; the number of
\* SharedFuture objects that share the State and whether the State has been
\* destroyed.
NoSharedFuture == [made |-> FALSE, value_ |-> <<>>, listeners_ |-> <<>>, id |-> 0, arrived |-> <<>>, posted |-> <<>>, handles |-> 0, destroyed |-> FALSE]

\* Arguments of the suspending function that provide a WeakPtr.
NCaps == 2

\* The frame of a suspending function: where it stands, the location of its
\* CoroutinePromise and of the future_ of its FutureAwaiter, the pairs of its
\* result and of the Future it awaits, ptrs_ (whether each WeakPtr is still
\* valid) and, as history, the values the code after the await ran with and
\* the states the frame has been in, in order.
NoFrame == [state |-> "none", promise |-> nullptr, future_ |-> nullptr, id |-> 0, awaited |-> 0, ptrs_ |-> [c \in 1..NCaps |-> TRUE], after |-> <<>>, path |-> <<>>, nested |-> 0, fn |-> "none"]

VARIABLES fut, prom, tasks, crashed, ub, calls, settled, cbs, nextId, own, moves, last, sharedPromise, sharedFuture, remote, frame

vars == <<fut, prom, tasks, crashed, ub, calls, settled, cbs, nextId, own, moves, last, sharedPromise, sharedFuture, remote, frame>>

\* The part of the state the operations of future.h act on, as one record.
Heap == [fut |-> fut, prom |-> prom, tasks |-> tasks, crashed |-> crashed, ub |-> ub, calls |-> calls, settled |-> settled, cbs |-> cbs, sharedPromise |-> sharedPromise, sharedFuture |-> sharedFuture, remote |-> remote, frame |-> frame, during |-> "none"]

Ok(S) == S.crashed = "none" /\ ~S.ub
Crash(S, why) == [S EXCEPT !.crashed = why]

\* The sequence every Promise and Future is constructed on, and another one.
HomeSequence == 1
OtherSequence == 2

\* DCHECK_CALLED_ON_VALID_SEQUENCE(sequence_checker_) of an object bound to
\* sequence bound, reached on sequence current.
CalledOnValidSequence(S, bound, current) == IF bound = current THEN S ELSE Crash(S, "DCHECK_CALLED_ON_VALID_SEQUENCE")

FreeP(S, p) == ~S.prom[p].live /\ ~S.fut[Emb(p)].live
AllocP(S) == CHOOSE p \in PPool : FreeP(S, p) /\ \A q \in PPool : q < p => ~FreeP(S, q)
AllocF(S) == CHOOSE f \in FPool : ~S.fut[f].live /\ \A g \in FPool : g < f => S.fut[g].live

\* A write through a pointer: undefined behaviour when the object is gone.
WriteFuture(S, f, field, x) == IF S.fut[f].live THEN [S EXCEPT !.fut[f][field] = x] ELSE [S EXCEPT !.ub = TRUE]
WritePromise(S, p, field, x) == IF S.prom[p].live THEN [S EXCEPT !.prom[p][field] = x] ELSE [S EXCEPT !.ub = TRUE]

\* if (promise_ptr_) { promise_ptr_->future_ptr_ = x; }
SetFuturePtr(S, promise_ptr, x) == IF promise_ptr # nullptr THEN WritePromise(S, promise_ptr, "future_ptr", x) ELSE S

\* if (future_ptr_) { future_ptr_->promise_ptr_ = x; }
SetPromisePtr(S, future_ptr, x) == IF future_ptr # nullptr THEN WriteFuture(S, future_ptr, "promise_ptr", x) ELSE S

\* The caller's callable k is run with v: the history records it.
LogCall(S, k, v) == [S EXCEPT !.calls = Append(@, [k |-> k, v |-> v, during |-> S.during])]

\* The Promise at p has taken the value v: the history records it.
LogSettled(S, p, v, with_side_effects) == [S EXCEPT !.settled[S.prom[p].id] = <<[v |-> v, during |-> S.during, wse |-> with_side_effects]>>]

RECURSIVE PromiseSetValue(_, _, _, _)
RECURSIVE PromiseSetValueActive(_, _, _, _)
RECURSIVE RunCallback(_, _, _)
RECURSIVE TransformFutureValue(_, _, _, _)
RECURSIVE TransformFutureValueBody(_, _, _, _, _)
RECURSIVE TransformAndUnwrapFutureValue(_, _, _, _)
RECURSIVE TransformAndUnwrapFutureValueBody(_, _, _, _, _)
RECURSIVE UnwrapFutureValue(_, _, _)
RECURSIVE RunContinuation(_, _, _, _)
RECURSIVE NotifyListeners(_, _)

\* ------------------------------------------- internal::FutureActiveState
\* SetInactive on the active_state_ of the Future at f.
FutureSetInactive(S, f) == IF ~S.fut[f].live THEN [S EXCEPT !.ub = TRUE]
    ELSE IF ~S.fut[f].active THEN Crash(S, "CHECK(active_)")
    ELSE [S EXCEPT !.fut[f].active = FALSE]

\* SetInactive on the active_state_ of the Promise at p.
PromiseSetInactive(S, p) == IF ~S.prom[p].live THEN [S EXCEPT !.ub = TRUE]
    ELSE IF ~S.prom[p].active THEN Crash(S, "CHECK(active_)")
    ELSE [S EXCEPT !.prom[p].active = FALSE]

\* ------------------------------------------------------------- Future<T>
\* The members of a Future as their initializers leave them.
FreshFuture == [live |-> TRUE, value |-> <<>>, promise_ptr |-> nullptr, active |-> TRUE, id |-> 0, mf |-> FALSE]

\* A Future::operator= that does not re-point the Promise's future_ptr_.
FutureMoveAssignNoRepoint(S, dst, src) == IF dst = src THEN S
    ELSE [S EXCEPT !.fut[dst].value = S.fut[src].value,
                   !.fut[dst].promise_ptr = S.fut[src].promise_ptr,
                   !.fut[src].promise_ptr = nullptr,
                   !.fut[dst].active = S.fut[src].active,
                   !.fut[src].active = FALSE,
                   !.fut[dst].id = S.fut[src].id,
                   !.fut[dst].mf = S.fut[src].mf,
                   !.fut[src].mf = TRUE]

\* Future& operator=(Future&& other), this at dst, other at src.
FutureMoveAssign(S, dst, src) == IF dst = src THEN S
    ELSE SetFuturePtr([S EXCEPT !.fut[dst].value = S.fut[src].value,
                                !.fut[dst].promise_ptr = S.fut[src].promise_ptr,
                                !.fut[src].promise_ptr = nullptr,
                                !.fut[dst].active = S.fut[src].active,
                                !.fut[src].active = FALSE,
                                !.fut[dst].id = S.fut[src].id,
                                !.fut[dst].mf = S.fut[src].mf,
                                !.fut[src].mf = TRUE],
                      S.fut[src].promise_ptr, dst)

\* Future(Future&& other): the members' initializers, then operator=.
FutureMoveCtor(S, dst, src) == FutureMoveAssign([S EXCEPT !.fut[dst] = FreshFuture], dst, src)

\* A ~Future() that leaves the Promise's future_ptr_ pointing at it.
FutureDtorKeepsLink(S, f) == [S EXCEPT !.fut[f] = DeadFuture]

\* ~Future()
FutureDtor(S, f) == [SetFuturePtr(S, S.fut[f].promise_ptr, nullptr) EXCEPT !.fut[f] = DeadFuture]

\* private Future::SetValue(T value), reached through Promise::future_ptr_.
FutureSetValue(S, f, v) == IF ~S.fut[f].live THEN [S EXCEPT !.ub = TRUE]
    ELSE IF S.fut[f].value # <<>> THEN Crash(S, "DCHECK(!value_)")
    ELSE [S EXCEPT !.fut[f].value = <<v>>, !.fut[f].promise_ptr = nullptr]

\* std::optional<T> GetValueSynchronously() { return std::move(value_); }
\* The moved-from optional stays engaged: no member changes.
FutureGetValueSynchronously(S, f) == S.fut[f].value

\* PostTask on the current default task runner.
PostTask(S, cb, v) == [S EXCEPT !.tasks = Append(@, [cb |-> cb, v |-> v])]

\* ------------------------------------------------------------ Promise<T>
\* The members of a Promise as their initializers leave them.
FreshPromise == [live |-> TRUE, future_ptr |-> nullptr, callback |-> NullCallback, active |-> TRUE, id |-> 0, mf |-> FALSE, bound |-> FALSE]

\* Promise(): future_(Future<T>()), future_ptr_(&future_.value()), and
\* future_ptr_->promise_ptr_ = this.
PromiseCtor(S, p, id) == [S EXCEPT
    !.prom[p] = [FreshPromise EXCEPT !.future_ptr = Emb(p), !.id = id],
    !.fut[Emb(p)] = [FreshFuture EXCEPT !.promise_ptr = p, !.id = id]]

\* The callbacks bound with a scoped_refptr to the State of the SharedFuture
\* (a method bound with `this` of a reference-counted class holds one too).
SharedFutureBound == {"SharedFuture::OnComplete", "SharedFuture::State::SetValue", "SharedFuture::State::AddListener", "SharedFuture::State::RunCompleteCallback"}

\* The references to the State: the state_ of every SharedFuture, the
\* callback a Promise holds, the tasks waiting on the task runners.
SharedFutureStateRefs(S) == S.sharedFuture.handles
    + Cardinality({p \in PPool : S.prom[p].live /\ S.prom[p].callback.kind \in SharedFutureBound})
    + Cardinality({i \in 1..Len(S.tasks) : S.tasks[i].cb.kind \in SharedFutureBound})
    + Cardinality(UNION {{<<runner, i>> : i \in {j \in 1..Len(S.remote[runner]) : S.remote[runner][j].cb.kind \in SharedFutureBound}} : runner \in OtherRunners})

\* ~State() = default: listeners_, with the callables in it, and value_ are
\* destroyed.
SharedFutureStateDtor(S) == [S EXCEPT !.sharedFuture.listeners_ = <<>>, !.sharedFuture.value_ = <<>>, !.sharedFuture.destroyed = TRUE]

\* scoped_refptr<State>::~scoped_refptr: the State is deleted when the
\* reference was its last.
SharedFutureStateRelease(S) == IF ~Ok(S) \/ ~S.sharedFuture.made \/ S.sharedFuture.destroyed \/ SharedFutureStateRefs(S) > 0 THEN S ELSE SharedFutureStateDtor(S)

RECURSIVE PromiseDtor(_, _)
RECURSIVE DestroyCallback(_, _)
RECURSIVE PromiseDtorMembers(_, _)

\* A OnceCallback destroyed without being run destroys what it was bound with.
DestroyCallback(S, cb) == IF cb.promise # nullptr THEN PromiseDtor(S, cb.promise)
    ELSE IF cb.kind \in SharedFutureBound THEN SharedFutureStateRelease(S)
    ELSE S

\* The destructor of std::optional<Future<T>>.
OptionalFutureDtor(S, f) == IF S.fut[f].live THEN FutureDtor(S, f) ELSE S

\* The members of the Promise at p are destroyed: callback_, then future_.
PromiseDtorMembers(S, p) == [OptionalFutureDtor(DestroyCallback([S EXCEPT !.prom[p].callback = NullCallback], S.prom[p].callback), Emb(p)) EXCEPT !.prom[p] = DeadPromise]

\* ~Promise()
PromiseDtor(S, p) == PromiseDtorMembers(SetPromisePtr(S, S.prom[p].future_ptr, nullptr), p)

\* future_ = std::move(other.future_) on std::optional<Future<T>>.
OptionalFutureMoveAssign(S, dst, src) == IF S.fut[src].live
    THEN IF S.fut[dst].live THEN FutureMoveAssign(S, dst, src) ELSE FutureMoveCtor(S, dst, src)
    ELSE OptionalFutureDtor(S, dst)

\* A Promise::operator= that leaves active_state_ as constructed.
PromiseMoveMembersKeepsActive(S, dst, src) == SetPromisePtr(
    DestroyCallback([S EXCEPT !.prom[dst].future_ptr = S.prom[src].future_ptr,
                              !.prom[src].future_ptr = nullptr,
                              !.prom[dst].callback = S.prom[src].callback,
                              !.prom[src].callback = NullCallback,
                              !.prom[dst].id = S.prom[src].id,
                              !.prom[dst].mf = S.prom[src].mf,
                              !.prom[src].mf = TRUE],
                    S.prom[dst].callback),
    S.prom[src].future_ptr, dst)

\* Promise::operator= after future_ has been moved: future_ptr_, callback_
\* and active_state_ are taken from other, then the Future is re-pointed.
PromiseMoveMembers(S, dst, src) == SetPromisePtr(
    DestroyCallback([S EXCEPT !.prom[dst].future_ptr = S.prom[src].future_ptr,
                              !.prom[src].future_ptr = nullptr,
                              !.prom[dst].callback = S.prom[src].callback,
                              !.prom[src].callback = NullCallback,
                              !.prom[dst].active = S.prom[src].active,
                              !.prom[src].active = FALSE,
                              !.prom[dst].id = S.prom[src].id,
                              !.prom[dst].mf = S.prom[src].mf,
                              !.prom[src].mf = TRUE],
                    S.prom[dst].callback),
    S.prom[src].future_ptr, dst)

\* Promise& operator=(Promise&& other), this at dst, other at src.
PromiseMoveAssign(S, dst, src) == IF dst = src THEN S
    ELSE PromiseMoveMembers(OptionalFutureMoveAssign(S, Emb(dst), Emb(src)), dst, src)

\* Promise(Promise&& other): the members' initializers, then operator=.
PromiseMoveCtor(S, dst, src) == PromiseMoveAssign([S EXCEPT !.prom[dst] = FreshPromise], dst, src)

\* Future<T> GetFuture(), the returned Future constructed at f.
PromiseGetFuture(S, p, f) == IF ~Ok(S) THEN S
    ELSE IF ~S.fut[Emb(p)].live THEN Crash(S, "CHECK(future_)")
    ELSE FutureDtor(FutureMoveCtor(S, f, Emb(p)), Emb(p))

\* private Promise::SetCallback(callback)
PromiseSetCallback(S, p, cb) == IF ~S.prom[p].live THEN [S EXCEPT !.ub = TRUE]
    ELSE IF S.prom[p].callback # NullCallback THEN Crash(S, "DCHECK(!callback_)")
    ELSE [S EXCEPT !.prom[p].callback = cb, !.prom[p].future_ptr = nullptr]

\* A Future::AndThen that runs the callback at once when the value is there.
FutureAndThenActiveInline(S, f, cb) == IF ~Ok(S) THEN S
    ELSE IF S.fut[f].value # <<>> THEN RunCallback(S, cb, S.fut[f].value[1])
    ELSE IF S.fut[f].promise_ptr # nullptr THEN [PromiseSetCallback(S, S.fut[f].promise_ptr, cb) EXCEPT !.fut[f].promise_ptr = nullptr]
    ELSE DestroyCallback(S, cb)

\* Future::AndThen after active_state_.SetInactive() has returned.
FutureAndThenActive(S, f, cb) == IF ~Ok(S) THEN S
    ELSE IF S.fut[f].value # <<>> THEN PostTask(S, cb, S.fut[f].value[1])
    ELSE IF S.fut[f].promise_ptr # nullptr THEN [PromiseSetCallback(S, S.fut[f].promise_ptr, cb) EXCEPT !.fut[f].promise_ptr = nullptr]
    ELSE DestroyCallback(S, cb)

\* void Future::AndThen(base::OnceCallback<void(T)> callback)
FutureAndThen(S, f, cb) == IF ~Ok(S) THEN S ELSE FutureAndThenActive(FutureSetInactive(S, f), f, cb)

\* The Promise at src is moved into the bind state of a callback: a move
\* construction at dst, which the callback owns from then on.
BindPromise(S, dst, src) == [PromiseMoveCtor(S, dst, src) EXCEPT !.prom[dst].bound = TRUE]

\* A Promise::SetValue that drops the value when no callback is registered.
PromiseSetValueActiveNoStore(S, p, v, with_side_effects) == IF ~Ok(S) THEN S
    ELSE IF S.prom[p].callback # NullCallback
        THEN IF with_side_effects
            THEN RunCallback([LogSettled(S, p, v, with_side_effects) EXCEPT !.prom[p].callback = NullCallback], S.prom[p].callback, v)
            ELSE PostTask([LogSettled(S, p, v, with_side_effects) EXCEPT !.prom[p].callback = NullCallback], S.prom[p].callback, v)
    ELSE LogSettled(S, p, v, with_side_effects)

\* A Promise::SetValue that posts the callback whatever with_side_effects is.
PromiseSetValueActiveAlwaysPosts(S, p, v, with_side_effects) == IF ~Ok(S) THEN S
    ELSE IF S.prom[p].callback # NullCallback
        THEN PostTask([LogSettled(S, p, v, with_side_effects) EXCEPT !.prom[p].callback = NullCallback], S.prom[p].callback, v)
    ELSE IF S.prom[p].future_ptr # nullptr
        THEN [FutureSetValue(LogSettled(S, p, v, with_side_effects), S.prom[p].future_ptr, v) EXCEPT !.prom[p].future_ptr = nullptr]
    ELSE LogSettled(S, p, v, with_side_effects)

\* Promise::SetValue(value, with_side_effects) after active_state_.SetInactive()
\* has returned.
PromiseSetValueActive(S, p, v, with_side_effects) == IF ~Ok(S) THEN S
    ELSE IF S.prom[p].callback # NullCallback
        THEN IF with_side_effects
            THEN RunCallback([LogSettled(S, p, v, with_side_effects) EXCEPT !.prom[p].callback = NullCallback], S.prom[p].callback, v)
            ELSE PostTask([LogSettled(S, p, v, with_side_effects) EXCEPT !.prom[p].callback = NullCallback], S.prom[p].callback, v)
    ELSE IF S.prom[p].future_ptr # nullptr
        THEN [FutureSetValue(LogSettled(S, p, v, with_side_effects), S.prom[p].future_ptr, v) EXCEPT !.prom[p].future_ptr = nullptr]
    ELSE LogSettled(S, p, v, with_side_effects)

\* private Promise::SetValue(T value, bool with_side_effects)
PromiseSetValue(S, p, v, with_side_effects) == IF ~Ok(S) THEN S
    ELSE PromiseSetValueActive(PromiseSetInactive(S, p), p, v, with_side_effects)

\* A bound static returns: its by-value parameter `promise` (at param) and
\* the bind state it was moved from (at bound) are destroyed.
ReturnFromBound(S, param, bound) == IF ~Ok(S) THEN S ELSE PromiseDtor(PromiseDtor(S, param), bound)

\* A TransformFutureValue that settles the promise with the callback's result
\* for a value-initialized argument instead of the value it was run with.
TransformFutureValueBodyStaleArgument(S, param, bound, k, v) == ReturnFromBound(PromiseSetValue(LogCall(S, k, v), param, Apply(S.cbs[k].kind, 0), TRUE), param, bound)

\* promise.SetValueWithSideEffects(std::move(callback).Run(std::move(value)))
TransformFutureValueBody(S, param, bound, k, v) == ReturnFromBound(PromiseSetValue(LogCall(S, k, v), param, Apply(S.cbs[k].kind, v), TRUE), param, bound)

\* static Future::TransformFutureValue(Promise<U> promise, callback, T value):
\* the parameter promise is move-constructed from the bind state at bound.
TransformFutureValue(S, bound, k, v) == TransformFutureValueBody(PromiseMoveCtor(S, AllocP(S), bound), AllocP(S), bound, k, v)

\* static Future::UnwrapFutureValue(Promise<U> promise, U value)
UnwrapFutureValue(S, bound, v) == ReturnFromBound(PromiseSetValue(PromiseMoveCtor(S, AllocP(S), bound), AllocP(S), v, TRUE), AllocP(S), bound)

\* The caller's Future<U>(T) callable k run with v; the Future it returns is
\* constructed at t.  "ready" returns MakeReadyFuture(true); "pending"
\* makes a Promise the caller keeps and returns promise.GetFuture().
RunContinuation(S, k, v, t) == IF S.cbs[k].kind = "ready"
    THEN PromiseDtor(PromiseGetFuture(PromiseSetValue(PromiseCtor(LogCall(S, k, v), AllocP(S), S.cbs[k].inner), AllocP(S), Apply("ready", v), FALSE), AllocP(S), t), AllocP(S))
    ELSE PromiseGetFuture(PromiseCtor(LogCall(S, k, v), AllocP(S), S.cbs[k].inner), AllocP(S), t)

\* .AndThen(base::BindOnce(UnwrapFutureValue<U>, std::move(promise))) on the
\* temporary Future at t, which is then destroyed.
AndThenUnwrap(S, t, param) == FutureDtor(FutureAndThen(BindPromise(S, AllocP(S), param), t, BoundCallback("UnwrapFutureValue", 0, AllocP(S))), t)

\* A TransformAndUnwrapFutureValue that settles the promise at once with a
\* value-initialized U (false, 0) and drops the Future the callback returned.
TransformAndUnwrapFutureValueBodyEager(S, param, bound, k, v) == ReturnFromBound(PromiseSetValue(FutureDtor(RunContinuation(S, k, v, AllocF(S)), AllocF(S)), param, IF S.cbs[k].kind = "ready" THEN FALSE ELSE 0, TRUE), param, bound)

\* std::move(callback).Run(std::move(value)).AndThen(...)
TransformAndUnwrapFutureValueBody(S, param, bound, k, v) == ReturnFromBound(AndThenUnwrap(RunContinuation(S, k, v, AllocF(S)), AllocF(S), param), param, bound)

\* static Future::TransformAndUnwrapFutureValue(Promise<U> promise, callback, T value)
TransformAndUnwrapFutureValue(S, bound, k, v) == TransformAndUnwrapFutureValueBody(PromiseMoveCtor(S, AllocP(S), bound), AllocP(S), bound, k, v)

\* The lambda of internal::MakeFutureHelper<T>::WrapPromise run with its bound
\* promise and value: promise.SetValueWithSideEffects(std::move(value)).
WrapPromiseLambda(S, bound, v) == ReturnFromBound(PromiseSetValue(PromiseMoveCtor(S, AllocP(S), bound), AllocP(S), v, TRUE), AllocP(S), bound)

\* ------------------------------------------------------- SharedPromise<T>
\* State(Promise<T> promise) : promise_(std::move(promise)) {}, the parameter
\* at param, destroyed on return.
SharedPromiseStateCtor(S, param) == [PromiseDtor(BindPromise(S, AllocP(S), param), param) EXCEPT !.sharedPromise = [made |-> TRUE, promise_ |-> AllocP(S), id |-> S.prom[param].id, fresh |-> S.prom[param].active, copies |-> 1, handles |-> {1}, destroyed |-> FALSE]]

\* state_(new State(std::move(promise))), promise being the constructor's
\* by-value parameter at param, destroyed on return.
SharedPromiseNewState(S, param) == PromiseDtor(SharedPromiseStateCtor(PromiseMoveCtor(S, AllocP(S), param), AllocP(S)), param)

\* explicit SharedPromise(Promise<T> promise), called with std::move(src).
SharedPromiseCtor(S, src) == SharedPromiseNewState(PromiseMoveCtor(S, AllocP(S), src), AllocP(S))

\* base::BindOnce(&State::SetValue, state_, std::move(value)).
StateSetValueCallback == [kind |-> "SharedPromise::State::SetValue", k |-> 0, promise |-> nullptr]

\* promise_.reset() after promise_->SetValue(std::move(value)).
SharedPromiseStateReset(S) == IF ~Ok(S) THEN S ELSE [PromiseDtor(S, S.sharedPromise.promise_) EXCEPT !.sharedPromise.promise_ = nullptr]

\* A State::SetValue that leaves promise_ engaged after settling it.
SharedPromiseStateSetValueNoReset(S, v) == IF S.sharedPromise.promise_ = nullptr THEN S ELSE PromiseSetValue(S, S.sharedPromise.promise_, v, FALSE)

\* SharedPromise<T>::State::SetValue, run by the task runner of the sequence
\* the SharedPromise was constructed on.
SharedPromiseStateSetValue(S, v) == IF S.sharedPromise.promise_ = nullptr THEN S ELSE SharedPromiseStateReset(PromiseSetValue(S, S.sharedPromise.promise_, v, FALSE))

\* The references to the State: the state_ of every live SharedPromise and
\* the one every State::SetValue task in the queue is bound with.
SharedPromiseStateRefs(S) == Cardinality(S.sharedPromise.handles) + Cardinality({i \in 1..Len(S.tasks) : S.tasks[i].cb.kind = "SharedPromise::State::SetValue"})

\* ~State() = default, on the given sequence: promise_ is destroyed, and
\* ~Promise of an engaged promise_ has the sequence DCHECK.
SharedPromiseStateDtor(S, sequence) == IF S.sharedPromise.promise_ = nullptr
    THEN [S EXCEPT !.sharedPromise.destroyed = TRUE]
    ELSE IF sequence # HomeSequence THEN CalledOnValidSequence(S, HomeSequence, sequence)
    ELSE [PromiseDtor(S, S.sharedPromise.promise_) EXCEPT !.sharedPromise.promise_ = nullptr, !.sharedPromise.destroyed = TRUE]

\* scoped_refptr<State>::~scoped_refptr on the given sequence: the State is
\* deleted when the reference was its last.
SharedPromiseStateRelease(S, sequence) == IF ~Ok(S) \/ S.sharedPromise.destroyed \/ SharedPromiseStateRefs(S) > 0 THEN S ELSE SharedPromiseStateDtor(S, sequence)

\* ~SharedPromise() (implicit) of handle c on the given sequence: state_ is
\* released.
SharedPromiseDtor(S, c, sequence) == SharedPromiseStateRelease([S EXCEPT !.sharedPromise.handles = @ \ {c}], sequence)

\* SharedPromise(const SharedPromise&) = default: one more handle.
SharedPromiseCopy(S) == [S EXCEPT !.sharedPromise.copies = @ + 1, !.sharedPromise.handles = @ \cup {S.sharedPromise.copies + 1}]

\* The task of SharedPromise::SetValue run by the constructing sequence's
\* task runner: State::SetValue, then the task's reference is dropped.
RunStateSetValue(S, v) == SharedPromiseStateRelease(SharedPromiseStateSetValue(S, v), HomeSequence)

\* A SharedPromise<T>::SetValue that calls State::SetValue where it stands.
SharedPromiseSetValueInline(S, v) == SharedPromiseStateSetValue(S, v)

\* SharedPromise<T>::SetValue: task_runner_->PostTask(...).
SharedPromiseSetValue(S, v) == PostTask(S, StateSetValueCallback, v)

\* -------------------------------------------------------- SharedFuture<T>
\* task_runner->PostTask(FROM_HERE, task) on the given task runner.
PostTaskTo(S, runner, cb, v) == IF runner = HomeRunner THEN PostTask(S, cb, v) ELSE [S EXCEPT !.remote[runner] = Append(@, [cb |-> cb, v |-> v])]

\* base::BindOnce(OnComplete, state_, task_runner_).
OnCompleteCallback == [kind |-> "SharedFuture::OnComplete", k |-> 0, promise |-> nullptr]
\* base::BindOnce(&State::SetValue, state, std::move(value)).
SharedStateSetValueCallback == [kind |-> "SharedFuture::State::SetValue", k |-> 0, promise |-> nullptr]
\* base::BindOnce(&State::AddListener, state_, std::move(listener)).
AddListenerCallback(k, runner) == [kind |-> "SharedFuture::State::AddListener", k |-> k, promise |-> nullptr, runner |-> runner]
\* base::BindOnce(&State::RunCompleteCallback, this, on_complete, *value_).
RunCompleteCallback(k) == [kind |-> "SharedFuture::State::RunCompleteCallback", k |-> k, promise |-> nullptr]

\* explicit SharedFuture(Future<T> future), called with std::move(src): the
\* parameter is constructed at param and destroyed on return.
SharedFutureCtorEnd(S, param) == IF ~Ok(S) THEN S ELSE FutureDtor(S, param)
SharedFutureCtorBody(S, param) == SharedFutureCtorEnd(FutureAndThen([S EXCEPT !.sharedFuture = [NoSharedFuture EXCEPT !.made = TRUE, !.id = S.fut[param].id, !.handles = 1]], param, OnCompleteCallback), param)
SharedFutureCtor(S, src) == SharedFutureCtorBody(FutureMoveCtor(S, AllocF(S), src), AllocF(S))

\* SharedFuture<T>::OnComplete.
SharedFutureOnComplete(S, v) == PostTask(S, SharedStateSetValueCallback, v)

\* listener.task_runner->PostTask(RunCompleteCallback(on_complete, *value_)).
NotifyListener(S, listener) == [PostTaskTo(S, listener.runner, RunCompleteCallback(listener.k), S.sharedFuture.value_[1]) EXCEPT !.sharedFuture.posted = Append(@, listener.k)]

\* for (auto& listener : listeners_) { ... }
NotifyListeners(S, listeners) == IF listeners = <<>> THEN S ELSE NotifyListeners(NotifyListener(S, Head(listeners)), Tail(listeners))

\* A State::SetValue that stores the value and forgets the listeners.
SharedFutureStateSetValueSilent(S, v) == IF S.sharedFuture.value_ # <<>> THEN S
    ELSE [S EXCEPT !.sharedFuture.value_ = <<v>>, !.sharedFuture.listeners_ = <<>>]

\* A State::SetValue that does not test value_: it stores and notifies again.
SharedFutureStateSetValueOverwrites(S, v) == [NotifyListeners([S EXCEPT !.sharedFuture.value_ = <<v>>], S.sharedFuture.listeners_) EXCEPT !.sharedFuture.listeners_ = <<>>]

\* SharedFuture<T>::State::SetValue.
SharedFutureStateSetValue(S, v) == IF S.sharedFuture.value_ # <<>> THEN S
    ELSE [NotifyListeners([S EXCEPT !.sharedFuture.value_ = <<v>>], S.sharedFuture.listeners_) EXCEPT !.sharedFuture.listeners_ = <<>>]

\* A State::AddListener that puts the listener at the front of listeners_.
SharedFutureAddListenerPushFront(S, listener) == IF S.sharedFuture.value_ # <<>> THEN NotifyListener(S, listener)
    ELSE [S EXCEPT !.sharedFuture.listeners_ = <<listener>> \o @]

\* SharedFuture<T>::State::AddListener, the history field aside.
SharedFutureAddListener(S, listener) == IF S.sharedFuture.value_ # <<>> THEN NotifyListener(S, listener)
    ELSE [S EXCEPT !.sharedFuture.listeners_ = Append(@, listener)]

SharedFutureStateAddListener(S, listener) == SharedFutureAddListener([S EXCEPT !.sharedFuture.arrived = Append(@, listener.k)], listener)

\* SharedFuture(const SharedFuture& other) = default: one more state_.
SharedFutureCopy(S) == [S EXCEPT !.sharedFuture.handles = @ + 1]

\* ~SharedFuture() (implicit): state_ is released.
SharedFutureDtor(S) == SharedFutureStateRelease([S EXCEPT !.sharedFuture.handles = @ - 1])

\* SharedFuture<T>::AndThen called on the sequence whose task runner is runner.
SharedFutureAndThen(S, k, runner) == PostTask(S, AddListenerCallback(k, runner), 0)

\* ----------------------------------------------------- coroutine support
\* base::BindOnce(&FutureAwaiter::OnReady<P>, base::Unretained(this), handle).
OnReadyCallback == [kind |-> "FutureAwaiter::OnReady", k |-> 0, promise |-> nullptr]

\* CoroutinePromise::CanResume.
CanResume(S) == \A c \in 1..NCaps : S.frame.ptrs_[c]

\* The frame enters a state.
Visit(S, state) == [S EXCEPT !.frame.state = state, !.frame.path = Append(@, state)]

\* An end of the frame that destroys the promise and leaves the frame Running.
FrameEndStaysRunning(S) == IF ~Ok(S) THEN S ELSE [PromiseDtor(S, S.frame.promise) EXCEPT !.frame.promise = nullptr]

\* final_suspend never suspends: the frame and its promise are destroyed.
FrameEnd(S) == IF ~Ok(S) THEN S ELSE Visit([PromiseDtor(S, S.frame.promise) EXCEPT !.frame.promise = nullptr], "Completed")

\* co_return v: return_value(T value), then the end of the frame.
CoReturn(S, v) == FrameEnd(PromiseSetValue(S, S.frame.promise, v, TRUE))

\* The suspending functions of the tests and what each returns for the value
\* its co_await produced:
\*   Future<int> DoAsyncWork()                  co_return value * 2;
\*   Future<int> HasAsync::DoAsyncWork(future)  co_return val * val;
CoroutineFns == {"DoAsyncWork", "HasAsync::DoAsyncWork"}
CoroutineResult(fn, v) == IF fn = "HasAsync::DoAsyncWork" THEN v * v ELSE v * 2

\* A resumption that skips the code after the await point's result: the
\* function returns the awaited value itself.
AfterAwaitUndoubled(S, v) == CoReturn([FutureDtor(S, S.frame.future_) EXCEPT !.frame.future_ = nullptr, !.frame.after = Append(@, v)], v)

\* await_resume and the code after the await point of
\*   int value = co_await future; co_return <the function's result>;
\* the awaiter is destroyed at the end of the await expression.
AfterAwait(S, v) == CoReturn([FutureDtor(S, S.frame.future_) EXCEPT !.frame.future_ = nullptr, !.frame.after = Append(@, v)], CoroutineResult(S.frame.fn, v))

\* A teardown of the frame that leaves its promise alive.
FrameDestroyKeepsPromise(S) == Visit([FutureDtor(S, S.frame.future_) EXCEPT !.frame.future_ = nullptr], "Cancelled")

\* handle.destroy() on the suspended frame: the awaiter, then the promise.
FrameDestroy(S) == Visit([PromiseDtor(FutureDtor(S, S.frame.future_), S.frame.promise) EXCEPT !.frame.future_ = nullptr, !.frame.promise = nullptr], "Cancelled")

\* A FutureAwaiter::OnReady without the CanResume test.
FutureAwaiterOnReadyUnchecked(S, v) == AfterAwait(S, v)

\* FutureAwaiter<T>::OnReady.
FutureAwaiterOnReady(S, v) == IF ~CanResume(S) THEN FrameDestroy(Visit(S, "Resuming")) ELSE AfterAwait(Visit(Visit(S, "Resuming"), "Running"), v)

\* An invalidation that tears a suspended frame down at once.
InvalidateWeakPtrEager(S, c) == IF S.frame.state = "Awaiting" THEN FrameDestroy([S EXCEPT !.frame.ptrs_[c] = FALSE]) ELSE [S EXCEPT !.frame.ptrs_[c] = FALSE]

\* The object behind WeakPtr c of ptrs_ goes away: the WeakPtr tests false
\* from then on.
InvalidateWeakPtr(S, c) == [S EXCEPT !.frame.ptrs_[c] = FALSE]

\* An await_suspend that parks the frame without handing OnReady to the
\* awaited Future.
AwaitSuspendUnregistered(S) == Visit(S, "Awaiting")

\* FutureAwaiter<T>::await_suspend.
AwaitSuspend(S) == Visit(FutureAndThen(S, S.frame.future_, OnReadyCallback), "Awaiting")

\* A co_await whose await_ready answers false whatever the Future holds.
AwaitAlwaysSuspends(S) == AwaitSuspend(S)

\* co_await: await_ready, then await_resume or await_suspend.
Await(S) == IF FutureGetValueSynchronously(S, S.frame.future_) # <<>> THEN AfterAwait(S, FutureGetValueSynchronously(S, S.frame.future_)[1]) ELSE AwaitSuspend(S)

\* operator co_await(std::move(src)): FutureAwaiter's future_ is constructed
\* at a from the temporary, which is destroyed; then the await.
CoroutineBody(S, src, a) == Await([FutureDtor(FutureMoveCtor(S, a, src), src) EXCEPT !.frame.future_ = a])

\* The frame is set up: the CoroutinePromise is constructed at p with its
\* WeakPtrs, get_return_object() constructs the result Future at out.
FrameCtor(S, p, src, id, out, fn) == PromiseGetFuture([PromiseCtor(S, p, id) EXCEPT !.prom[p].bound = TRUE, !.frame = [NoFrame EXCEPT !.state = "Running", !.path = <<"Running">>, !.promise = p, !.id = id, !.awaited = S.fut[src].id, !.fn = fn]], p, out)

\* A call of the suspending function with the Future at src: initial_suspend
\* never suspends, so the body runs to its await inside the call.
Coroutine(S, src, id, fn) == CoroutineBody(FrameCtor(S, AllocP(S), src, id, AllocF(S), fn), src, AllocF([S EXCEPT !.fut[AllocF(S)].live = TRUE]))

\* The lambda of return_value(Future<T>) with the promise its bind state owns.
ReturnValueCallback(p) == BoundCallback("CoroutinePromiseBase::return_value", 0, p)

\* A lambda of return_value(Future<T>) that settles with plain SetValue.
ReturnValueLambdaPosts(S, bound, v) == ReturnFromBound(PromiseSetValue(PromiseMoveCtor(S, AllocP(S), bound), AllocP(S), v, FALSE), AllocP(S), bound)

\* The lambda of return_value(Future<T>) run with its bound promise and the
\* value: promise.SetValueWithSideEffects(std::move(value)).
ReturnValueLambda(S, bound, v) == ReturnFromBound(PromiseSetValue(PromiseMoveCtor(S, AllocP(S), bound), AllocP(S), v, TRUE), AllocP(S), bound)

\* future.AndThen(base::BindOnce(lambda, std::move(*this))): the bind state
\* takes the frame's promise at b, then AndThen on the Future at f.
ReturnValueDeferred(S, f, b) == FutureAndThen(BindPromise(S, b, S.frame.promise), f, ReturnValueCallback(b))

\* void return_value(Future<T> future), the parameter at f.
ReturnValueFuture(S, f) == IF FutureGetValueSynchronously(S, f) # <<>>
    THEN PromiseSetValue(S, S.frame.promise, FutureGetValueSynchronously(S, f)[1], TRUE)
    ELSE ReturnValueDeferred(S, f, AllocP(S))

\* co_return std::move(future): return_value with its parameter constructed
\* at a from the function's parameter at f, both destroyed as the frame ends.
CoReturnFuture(S, f, a) == IF ~Ok(S) THEN S
    ELSE FrameEnd([FutureDtor(FutureDtor(ReturnValueFuture(FutureMoveCtor(S, a, f), a), a), f) EXCEPT !.frame.future_ = nullptr])

\* The body of `Future<int> Nested(Future<int> future) { co_return
\* std::move(future); }`: the function's parameter is constructed at f from
\* the caller's Future at src.
NestedBody(S, src, f) == CoReturnFuture([FutureDtor(FutureMoveCtor(S, f, src), src) EXCEPT !.frame.future_ = f, !.frame.nested = S.fut[src].id], f, AllocF([S EXCEPT !.fut[f].live = TRUE]))

\* A call of Nested with the Future at src.
Nested(S, src, id) == NestedBody(FrameCtor(S, AllocP(S), src, id, AllocF(S), "Nested"), src, AllocF([S EXCEPT !.fut[AllocF(S)].live = TRUE]))

\* std::move(callback).Run(value) on a OnceCallback<void(T)>.
RunCallback(S, cb, v) == IF ~Ok(S) THEN S
    ELSE IF cb.kind = "user" THEN LogCall(S, cb.k, v)
    ELSE IF cb.kind = "TransformFutureValue" THEN TransformFutureValue(S, cb.promise, cb.k, v)
    ELSE IF cb.kind = "TransformAndUnwrapFutureValue" THEN TransformAndUnwrapFutureValue(S, cb.promise, cb.k, v)
    ELSE IF cb.kind = "UnwrapFutureValue" THEN UnwrapFutureValue(S, cb.promise, v)
    ELSE IF cb.kind = "WrapPromise" THEN WrapPromiseLambda(S, cb.promise, v)
    ELSE IF cb.kind = "SharedPromise::State::SetValue" THEN RunStateSetValue(S, v)
    ELSE IF cb.kind = "SharedFuture::OnComplete" THEN SharedFutureStateRelease(SharedFutureOnComplete(S, v))
    ELSE IF cb.kind = "SharedFuture::State::SetValue" THEN SharedFutureStateRelease(SharedFutureStateSetValue(S, v))
    ELSE IF cb.kind = "SharedFuture::State::AddListener" THEN SharedFutureStateRelease(SharedFutureStateAddListener(S, [k |-> cb.k, runner |-> cb.runner]))
    ELSE IF cb.kind = "SharedFuture::State::RunCompleteCallback" THEN SharedFutureStateRelease(LogCall(S, cb.k, v))
    ELSE IF cb.kind = "FutureAwaiter::OnReady" THEN FutureAwaiterOnReady(S, v)
    ELSE IF cb.kind = "CoroutinePromiseBase::return_value" THEN ReturnValueLambda(S, cb.promise, v)
    ELSE S

\* The local `promise` of a combinator goes out of scope.
LeaveScope(S, p) == IF ~Ok(S) THEN S ELSE PromiseDtor(S, p)

\* AndThen(base::BindOnce(kind, std::move(promise), std::move(callback))) on
\* the Future at f, the local promise at p; then the local goes out of scope.
AndThenBound(S, f, kind, k, p) == LeaveScope(FutureAndThen(BindPromise(S, AllocP(S), p), f, BoundCallback(kind, k, AllocP(S))), p)

\* Future<U> Future::Transform(base::OnceCallback<U(T)> callback) on the
\* Future at f, the returned Future constructed at out; id names the new pair.
FutureTransform(S, f, k, out, id) == AndThenBound(PromiseGetFuture(PromiseCtor(S, AllocP(S), id), AllocP(S), out), f, "TransformFutureValue", k, AllocP(S))

\* Future<U> Future::AndThen(base::OnceCallback<Future<U>(T)> callback)
FutureAndThenFuture(S, f, k, out, id) == AndThenBound(PromiseGetFuture(PromiseCtor(S, AllocP(S), id), AllocP(S), out), f, "TransformAndUnwrapFutureValue", k, AllocP(S))

\* Future<T> MakeReadyFuture(T value), the returned Future constructed at out.
MakeReadyFuture(S, v, out, id) == PromiseDtor(PromiseGetFuture(PromiseSetValue(PromiseCtor(S, AllocP(S), id), AllocP(S), v, FALSE), AllocP(S), out), AllocP(S))

\* The Promise of pair id that a callback's bind state owns.
BoundOf(S, id) == CHOOSE q \in PPool : S.prom[q].live /\ S.prom[q].bound /\ S.prom[q].id = id

\* base::BindOnce(lambda, std::move(promise)) inside WrapPromise, promise being
\* its by-value parameter at param, destroyed on return.
WrapPromiseBind(S, param) == PromiseDtor(BindPromise(S, AllocP(S), param), param)

\* MakeFutureHelper::WrapPromise(std::move(promise)), the promise at p.
WrapPromise(S, p) == WrapPromiseBind(PromiseMoveCtor(S, AllocP(S), p), AllocP(S))

\* A MakeFuture whose resolve callback is not bound to the task runner: run
\* inside f, it settles the promise there.
MakeFutureCallUnposted(S, p, id, sync, v) == LeaveScope(IF sync THEN RunCallback(S, BoundCallback("WrapPromise", 0, BoundOf(S, id)), v) ELSE S, p)

\* f(base::BindPostTaskToCurrentDefault(std::move(callback))); return future;
\* f either runs resolve with v at once (sync) or keeps it for later; running
\* it posts the wrapped callback to the sequence MakeFuture was called on.
MakeFutureCall(S, p, id, sync, v) == LeaveScope(IF sync THEN PostTask(S, BoundCallback("WrapPromise", 0, BoundOf(S, id)), v) ELSE S, p)

\* auto MakeFuture<T>(F&& f), the returned Future constructed at out.
MakeFuture(S, out, id, sync, v) == MakeFutureCall(WrapPromise(PromiseGetFuture(PromiseCtor(S, AllocP(S), id), AllocP(S), out), AllocP(S)), AllocP(S), id, sync, v)

\* --------------------------------------------------------- the program
\* The caller's side: the objects it may name, and what it still may create.
Running == crashed = "none" /\ ~ub
UserP == {p \in PPool : prom[p].live /\ ~prom[p].bound}
UserF == {f \in FPool : fut[f].live /\ f # frame.future_}
CanNewPair == nextId <= MaxPairs
CanOwn == own < MaxOwn
CanHoldP == Cardinality(UserP) < NP
CanHoldF == Cardinality(UserF) < NF
CanHandIn == Len(cbs) < MaxCb
\* The pair is one of Promise<int> and Future<int>: not the pair a half
\* Transform returned (double), nor a pair of a ready continuation (bool).
IntValued(id) == \A k \in 1..Len(cbs) :
    /\ cbs[k].kind = "half" => cbs[k].out # id
    /\ cbs[k].kind = "ready" => cbs[k].out # id /\ cbs[k].inner # id
CanMove == moves < MaxMoves

\* The last operation: its name, the object it was called on (location and
\* pair), the callable handed in or run, the value passed, the value returned.
Op(name, loc, id, k, v, ret) == [op |-> name, loc |-> loc, id |-> id, k |-> k, v |-> v, ret |-> ret]
Begin(name) == [Heap EXCEPT !.during = name]
\* The caller hands in a callable for the Future at f: what it does, the pair
\* of f, whether that pair was settled already, and the pairs it gives rise to.
HandIn(S, kind, f, out, inner) == [S EXCEPT !.cbs = Append(@, [kind |-> kind, src |-> S.fut[f].id, late |-> S.settled[S.fut[f].id] # <<>>, out |-> out, inner |-> inner])]

\* The step's result.  A process that has aborted has no memory left: only
\* what it did before the abort (tasks posted, callables run) is kept.
Commit(S, op) ==
    /\ fut' = (IF Ok(S) THEN S.fut ELSE [f \in AllF |-> DeadFuture])
    /\ prom' = (IF Ok(S) THEN S.prom ELSE [p \in PPool |-> DeadPromise])
    /\ tasks' = S.tasks
    /\ crashed' = S.crashed
    /\ ub' = S.ub
    /\ calls' = S.calls
    /\ settled' = S.settled
    /\ cbs' = S.cbs
    /\ sharedPromise' = (IF Ok(S) THEN S.sharedPromise ELSE NoSharedPromise)
    /\ sharedFuture' = (IF Ok(S) THEN S.sharedFuture ELSE NoSharedFuture)
    /\ remote' = S.remote
    /\ frame' = (IF Ok(S) THEN S.frame ELSE frame)
    /\ last' = op

Init ==
    /\ fut = [f \in AllF |-> DeadFuture]
    /\ prom = [p \in PPool |-> DeadPromise]
    /\ tasks = <<>>
    /\ crashed = "none"
    /\ ub = FALSE
    /\ calls = <<>>
    /\ settled = [i \in 1..MaxPairs |-> <<>>]
    /\ cbs = <<>>
    /\ nextId = 1
    /\ own = 0
    /\ moves = 0
    /\ sharedPromise = NoSharedPromise
    /\ sharedFuture = NoSharedFuture
    /\ remote = [c \in OtherRunners |-> <<>>]
    /\ frame = NoFrame
    /\ last = Op("Init", 0, 0, 0, 0, <<>>)

\* Promise<T> promise;
NewPromise ==
    /\ Running /\ CanOwn /\ CanNewPair /\ CanHoldP
    /\ Commit(PromiseCtor(Begin("Promise"), AllocP(Heap), nextId), Op("Promise", AllocP(Heap), nextId, 0, 0, <<>>))
    /\ nextId' = nextId + 1
    /\ own' = own + 1
    /\ UNCHANGED moves

\* Future<T> future = promise.GetFuture();
GetFuture ==
    /\ Running /\ CanHoldF
    /\ (\E p \in UserP : Commit(PromiseGetFuture(Begin("GetFuture"), p, AllocF(Heap)), Op("GetFuture", p, prom[p].id, 0, 0, <<>>)))
    /\ UNCHANGED <<nextId, own, moves>>

\* promise.SetValue(v);
SetValue ==
    /\ Running
    /\ (\E p \in UserP, v \in Val : Commit(PromiseSetValue(Begin("SetValue"), p, v, FALSE), Op("SetValue", p, prom[p].id, 0, v, <<>>)))
    /\ UNCHANGED <<nextId, own, moves>>

\* promise.SetValueWithSideEffects(v);
SetValueWithSideEffects ==
    /\ Running
    /\ (\E p \in UserP, v \in Val : Commit(PromiseSetValue(Begin("SetValueWithSideEffects"), p, v, TRUE), Op("SetValueWithSideEffects", p, prom[p].id, 0, v, <<>>)))
    /\ UNCHANGED <<nextId, own, moves>>

\* future.AndThen(base::BindOnce(store)); the callable is number Len(cbs) + 1.
AndThen ==
    /\ Running /\ CanHandIn
    /\ (\E f \in UserF : Commit(FutureAndThen(HandIn(Begin("AndThen"), "store", f, 0, 0), f, UserCallback(Len(cbs) + 1)), Op("AndThen", f, fut[f].id, Len(cbs) + 1, 0, <<>>)))
    /\ UNCHANGED <<nextId, own, moves>>

\* future.GetValueSynchronously();
GetValueSynchronously ==
    /\ Running
    /\ (\E f \in UserF : Commit(Begin("GetValueSynchronously"), Op("GetValueSynchronously", f, fut[f].id, 0, 0, FutureGetValueSynchronously(Heap, f))))
    /\ UNCHANGED <<nextId, own, moves>>

\* Future<double> out = future.Transform(base::BindOnce(half)); on a
\* Future<int>.
Transform ==
    /\ Running /\ CanHandIn /\ CanNewPair /\ CanHoldF
    /\ (\E f \in UserF : IntValued(fut[f].id) /\ Commit(FutureTransform(HandIn(Begin("Transform"), "half", f, nextId, 0), f, Len(cbs) + 1, AllocF(Heap), nextId), Op("Transform", f, fut[f].id, Len(cbs) + 1, 0, <<>>)))
    /\ nextId' = nextId + 1
    /\ UNCHANGED <<own, moves>>

\* Future<U> out = future.AndThen(base::BindOnce(continuation)); the pair the
\* continuation makes when it runs is numbered here.
AndThenFuture ==
    /\ Running /\ CanHandIn /\ nextId + 1 <= MaxPairs /\ CanHoldF
    /\ (\E f \in UserF, kind \in {"ready", "pending"} : IntValued(fut[f].id) /\ Commit(FutureAndThenFuture(HandIn(Begin("AndThenFuture"), kind, f, nextId, nextId + 1), f, Len(cbs) + 1, AllocF(Heap), nextId), Op("AndThenFuture", f, fut[f].id, Len(cbs) + 1, 0, <<>>)))
    /\ nextId' = nextId + 2
    /\ UNCHANGED <<own, moves>>

\* Future<T> moved(std::move(future));
MoveFuture ==
    /\ Running /\ CanHoldF /\ CanMove
    /\ (\E f \in UserF : Commit(FutureMoveCtor(Begin("MoveFuture"), AllocF(Heap), f), Op("MoveFuture", f, fut[f].id, 0, 0, <<>>)))
    /\ moves' = moves + 1
    /\ UNCHANGED <<nextId, own>>

\* Promise<T> moved(std::move(promise));
MovePromise ==
    /\ Running /\ CanHoldP /\ CanMove
    /\ (\E p \in UserP : Commit(PromiseMoveCtor(Begin("MovePromise"), AllocP(Heap), p), Op("MovePromise", p, prom[p].id, 0, 0, <<>>)))
    /\ moves' = moves + 1
    /\ UNCHANGED <<nextId, own>>

\* The Future at f goes out of scope.
DestroyFuture ==
    /\ Running
    /\ (\E f \in UserF : Commit(FutureDtor(Begin("~Future"), f), Op("~Future", f, fut[f].id, 0, 0, <<>>)))
    /\ UNCHANGED <<nextId, own, moves>>

\* The Promise at p goes out of scope.
DestroyPromise ==
    /\ Running
    /\ (\E p \in UserP : Commit(PromiseDtor(Begin("~Promise"), p), Op("~Promise", p, prom[p].id, 0, 0, <<>>)))
    /\ UNCHANGED <<nextId, own, moves>>

\* Future<T> future = MakeReadyFuture(v);
MakeReady ==
    /\ Running /\ CanOwn /\ CanNewPair /\ CanHoldF
    /\ (\E v \in Val : Commit(MakeReadyFuture(Begin("MakeReadyFuture"), v, AllocF(Heap), nextId), Op("MakeReadyFuture", 0, nextId, 0, v, <<>>)))
    /\ nextId' = nextId + 1
    /\ own' = own + 1
    /\ UNCHANGED moves

\* The task runner runs the task at the head of its queue.
RunTask ==
    /\ Running /\ tasks # <<>>
    /\ Commit(RunCallback([Begin("RunTask") EXCEPT !.tasks = Tail(@)], Head(tasks).cb, Head(tasks).v), Op("RunTask", 0, 0, Head(tasks).cb.k, Head(tasks).v, <<>>))
    /\ UNCHANGED <<nextId, own, moves>>

Next ==
    \/ NewPromise
    \/ GetFuture
    \/ SetValue
    \/ SetValueWithSideEffects
    \/ AndThen
    \/ GetValueSynchronously
    \/ Transform
    \/ AndThenFuture
    \/ MoveFuture
    \/ MovePromise
    \/ DestroyFuture
    \/ DestroyPromise
    \/ MakeReady
    \/ RunTask

Spec == Init /\ [][Next]_vars

\* ------------------------------------------------- one pair, many moves
\* Future<T> moved(std::move(future)); up to MaxLinkMoves moves in a run.
MoveFutureInto ==
    /\ Running /\ CanHoldF /\ moves < MaxLinkMoves
    /\ (\E f \in UserF : Commit(FutureMoveCtor(Begin("MoveFuture"), AllocF(Heap), f), Op("MoveFuture", f, fut[f].id, 0, 0, <<>>)))
    /\ moves' = moves + 1
    /\ UNCHANGED <<nextId, own>>

\* Promise<T> moved(std::move(promise)); up to MaxLinkMoves moves in a run.
MovePromiseInto ==
    /\ Running /\ CanHoldP /\ moves < MaxLinkMoves
    /\ (\E p \in UserP : Commit(PromiseMoveCtor(Begin("MovePromise"), AllocP(Heap), p), Op("MovePromise", p, prom[p].id, 0, 0, <<>>)))
    /\ moves' = moves + 1
    /\ UNCHANGED <<nextId, own>>

NextLinks ==
    \/ NewPromise
    \/ GetFuture
    \/ SetValue
    \/ AndThen
    \/ MoveFutureInto
    \/ MovePromiseInto
    \/ DestroyFuture
    \/ DestroyPromise
    \/ RunTask

SpecLinks == Init /\ [][NextLinks]_vars

\* ------------------------------------- one pair, a call from another sequence
\* SEQUENCE_CHECKER(sequence_checker_): an object is bound to the sequence
\* that constructs it.  HomeSequence constructs the pair and runs its tasks;
\* OtherSequence makes one call on it, after which the run is followed no
\* further, so every object that call finds is bound to HomeSequence and
\* every object it constructs is bound to OtherSequence.
OtherOps == {"AndThen/other", "GetValueSynchronously/other", "SetValue/other", "SetValueWithSideEffects/other", "GetFuture/other", "MoveFuture/other", "MovePromise/other", "~Future/other", "~Promise/other"}
OtherDone == last.op \in OtherOps

\* future.AndThen(callback) on the other sequence: the DCHECK comes first.
OtherAndThen ==
    /\ Running /\ ~OtherDone /\ CanHandIn
    /\ (\E f \in UserF : Commit(FutureAndThen(CalledOnValidSequence(HandIn(Begin("AndThen/other"), "store", f, 0, 0), HomeSequence, OtherSequence), f, UserCallback(Len(cbs) + 1)), Op("AndThen/other", f, fut[f].id, Len(cbs) + 1, 0, <<>>)))
    /\ UNCHANGED <<nextId, own, moves>>

\* future.GetValueSynchronously() on the other sequence: there is no DCHECK.
OtherGetValueSynchronously ==
    /\ Running /\ ~OtherDone
    /\ (\E f \in UserF : Commit(Begin("GetValueSynchronously/other"), Op("GetValueSynchronously/other", f, fut[f].id, 0, 0, FutureGetValueSynchronously(Heap, f))))
    /\ UNCHANGED <<nextId, own, moves>>

\* promise.SetValue(v) on the other sequence: the DCHECK of the private
\* SetValue comes first.
OtherSetValue ==
    /\ Running /\ ~OtherDone
    /\ (\E p \in UserP, v \in Val : Commit(PromiseSetValue(CalledOnValidSequence(Begin("SetValue/other"), HomeSequence, OtherSequence), p, v, FALSE), Op("SetValue/other", p, prom[p].id, 0, v, <<>>)))
    /\ UNCHANGED <<nextId, own, moves>>

\* promise.SetValueWithSideEffects(v) on the other sequence.
OtherSetValueWithSideEffects ==
    /\ Running /\ ~OtherDone
    /\ (\E p \in UserP, v \in Val : Commit(PromiseSetValue(CalledOnValidSequence(Begin("SetValueWithSideEffects/other"), HomeSequence, OtherSequence), p, v, TRUE), Op("SetValueWithSideEffects/other", p, prom[p].id, 0, v, <<>>)))
    /\ UNCHANGED <<nextId, own, moves>>

\* promise.GetFuture() on the other sequence: the DCHECK comes first.
OtherGetFuture ==
    /\ Running /\ ~OtherDone /\ CanHoldF
    /\ (\E p \in UserP : Commit(PromiseGetFuture(CalledOnValidSequence(Begin("GetFuture/other"), HomeSequence, OtherSequence), p, AllocF(Heap)), Op("GetFuture/other", p, prom[p].id, 0, 0, <<>>)))
    /\ UNCHANGED <<nextId, own, moves>>

\* Future<T> moved(std::move(future)) on the other sequence: operator= checks
\* the sequence_checker_ of *this, the Future under construction.
OtherMoveFuture ==
    /\ Running /\ ~OtherDone /\ CanHoldF
    /\ (\E f \in UserF : Commit(FutureMoveCtor(CalledOnValidSequence(Begin("MoveFuture/other"), OtherSequence, OtherSequence), AllocF(Heap), f), Op("MoveFuture/other", f, fut[f].id, 0, 0, <<>>)))
    /\ UNCHANGED <<nextId, own, moves>>

\* Promise<T> moved(std::move(promise)) on the other sequence: operator=
\* checks the sequence_checker_ of *this, the Promise under construction, and
\* the Future it constructs in future_ checks its own.
OtherMovePromise ==
    /\ Running /\ ~OtherDone /\ CanHoldP
    /\ (\E p \in UserP : Commit(PromiseMoveCtor(CalledOnValidSequence(Begin("MovePromise/other"), OtherSequence, OtherSequence), AllocP(Heap), p), Op("MovePromise/other", p, prom[p].id, 0, 0, <<>>)))
    /\ UNCHANGED <<nextId, own, moves>>

\* The Future at f is destroyed on the other sequence: ~Future has the DCHECK.
OtherDestroyFuture ==
    /\ Running /\ ~OtherDone
    /\ (\E f \in UserF : Commit(CalledOnValidSequence(Begin("~Future/other"), HomeSequence, OtherSequence), Op("~Future/other", f, fut[f].id, 0, 0, <<>>)))
    /\ UNCHANGED <<nextId, own, moves>>

\* The Promise at p is destroyed on the other sequence: ~Promise has the DCHECK.
OtherDestroyPromise ==
    /\ Running /\ ~OtherDone
    /\ (\E p \in UserP : Commit(CalledOnValidSequence(Begin("~Promise/other"), HomeSequence, OtherSequence), Op("~Promise/other", p, prom[p].id, 0, 0, <<>>)))
    /\ UNCHANGED <<nextId, own, moves>>

\* The home sequence's own calls, until the other sequence has made its call.
HomeStep ==
    /\ ~OtherDone
    /\ (NewPromise \/ GetFuture \/ SetValue \/ AndThen \/ MoveFuture \/ MovePromise \/ DestroyFuture \/ DestroyPromise \/ RunTask)

NextSeq ==
    \/ HomeStep
    \/ OtherAndThen
    \/ OtherGetValueSynchronously
    \/ OtherSetValue
    \/ OtherSetValueWithSideEffects
    \/ OtherGetFuture
    \/ OtherMoveFuture
    \/ OtherMovePromise
    \/ OtherDestroyFuture
    \/ OtherDestroyPromise

SpecSeq == Init /\ [][NextSeq]_vars

\* ------------------------------------------------------------ MakeFuture
\* The resolve callbacks a producer holds and has not run: the bound
\* promises that no posted task carries.
Resolvers == {p \in PPool : prom[p].live /\ prom[p].bound /\ \A i \in 1..Len(tasks) : tasks[i].cb.promise # p}

\* MakeFuture<int>(f), f running resolve(v) before it returns.
MakeFutureResolved ==
    /\ Running /\ CanOwn /\ CanNewPair /\ CanHoldF
    /\ (\E v \in Val : Commit(MakeFuture(Begin("MakeFuture"), AllocF(Heap), nextId, TRUE, v), Op("MakeFuture", 0, nextId, 0, v, <<>>)))
    /\ nextId' = nextId + 1
    /\ own' = own + 1
    /\ UNCHANGED moves

\* MakeFuture<int>(f), f keeping resolve for later.
MakeFuturePending ==
    /\ Running /\ CanOwn /\ CanNewPair /\ CanHoldF
    /\ Commit(MakeFuture(Begin("MakeFuture"), AllocF(Heap), nextId, FALSE, 0), Op("MakeFuture", 0, nextId, 0, 0, <<>>))
    /\ nextId' = nextId + 1
    /\ own' = own + 1
    /\ UNCHANGED moves

\* std::move(resolve).Run(v) on the sequence MakeFuture was called on.
Resolve ==
    /\ Running
    /\ (\E p \in Resolvers, v \in Val : Commit(PostTask(Begin("Resolve"), BoundCallback("WrapPromise", 0, p), v), Op("Resolve", p, prom[p].id, 0, v, <<>>)))
    /\ UNCHANGED <<nextId, own, moves>>

\* std::move(resolve).Run(v) on another sequence: the task is posted to the
\* sequence MakeFuture was called on all the same.
ResolveOther ==
    /\ Running
    /\ (\E p \in Resolvers, v \in Val : Commit(PostTask(Begin("Resolve/other"), BoundCallback("WrapPromise", 0, p), v), Op("Resolve/other", p, prom[p].id, 0, v, <<>>)))
    /\ UNCHANGED <<nextId, own, moves>>

NextMake ==
    \/ MakeFutureResolved
    \/ MakeFuturePending
    \/ Resolve
    \/ ResolveOther
    \/ AndThen
    \/ GetValueSynchronously
    \/ MoveFuture
    \/ DestroyFuture
    \/ RunTask

SpecMake == Init /\ [][NextMake]_vars

\* ---------------------------------------------------------- SharedPromise
\* Copies of one SharedPromise.
MaxCopies == 2
\* State::SetValue tasks waiting in the queue at a time.
MaxSharedSets == 2

PendingSharedSets == Cardinality({i \in 1..Len(tasks) : tasks[i].cb.kind = "SharedPromise::State::SetValue"})

\* SharedPromise<int> shared_promise(std::move(promise));
NewSharedPromise ==
    /\ Running /\ ~sharedPromise.made
    /\ (\E p \in UserP : Commit(SharedPromiseCtor(Begin("SharedPromise"), p), Op("SharedPromise", p, prom[p].id, 0, 0, <<>>)))
    /\ UNCHANGED <<nextId, own, moves>>

\* SharedPromise<int> shared_promise2(shared_promise1);
CopySharedPromise ==
    /\ Running /\ sharedPromise.handles # {} /\ sharedPromise.copies < MaxCopies
    /\ Commit(SharedPromiseCopy(Begin("SharedPromise(copy)")), Op("SharedPromise(copy)", sharedPromise.copies + 1, sharedPromise.id, 0, 0, <<>>))
    /\ UNCHANGED <<nextId, own, moves>>

\* shared_promise.SetValue(v) through copy c, on the sequence the
\* SharedPromise was constructed on.
SharedSetValue ==
    /\ Running /\ sharedPromise.made /\ PendingSharedSets < MaxSharedSets
    /\ (\E c \in sharedPromise.handles, v \in Val : Commit(SharedPromiseSetValue(Begin("SharedPromise::SetValue"), v), Op("SharedPromise::SetValue", c, sharedPromise.id, 0, v, <<>>)))
    /\ UNCHANGED <<nextId, own, moves>>

\* shared_promise.SetValue(v) through copy c, on another sequence.
SharedSetValueOther ==
    /\ Running /\ sharedPromise.made /\ PendingSharedSets < MaxSharedSets
    /\ (\E c \in sharedPromise.handles, v \in Val : Commit(SharedPromiseSetValue(Begin("SharedPromise::SetValue/other"), v), Op("SharedPromise::SetValue/other", c, sharedPromise.id, 0, v, <<>>)))
    /\ UNCHANGED <<nextId, own, moves>>

\* The SharedPromise handle c goes out of scope on the sequence the
\* SharedPromise was constructed on.
DestroySharedPromise ==
    /\ Running
    /\ (\E c \in sharedPromise.handles : Commit(SharedPromiseDtor(Begin("~SharedPromise"), c, HomeSequence), Op("~SharedPromise", c, sharedPromise.id, 0, 0, <<>>)))
    /\ UNCHANGED <<nextId, own, moves>>

\* The SharedPromise handle c goes out of scope on another sequence.
DestroySharedPromiseOther ==
    /\ Running
    /\ (\E c \in sharedPromise.handles : Commit(SharedPromiseDtor(Begin("~SharedPromise/other"), c, OtherSequence), Op("~SharedPromise/other", c, sharedPromise.id, 0, 0, <<>>)))
    /\ UNCHANGED <<nextId, own, moves>>

NextSharedPromise ==
    \/ NewPromise
    \/ GetFuture
    \/ AndThen
    \/ SetValue
    \/ NewSharedPromise
    \/ CopySharedPromise
    \/ SharedSetValue
    \/ SharedSetValueOther
    \/ DestroySharedPromise
    \/ DestroySharedPromiseOther
    \/ DestroyPromise
    \/ DestroyFuture
    \/ RunTask

SpecSharedPromise == Init /\ [][NextSharedPromise]_vars

\* The SharedPromise is handed to another sequence, as in
\* SharedPromiseOnDifferentThread: every SetValue on it is made there and
\* the handle is destroyed there; the Future the consumer was attached to is
\* a temporary.
NextHandoff ==
    \/ NewPromise
    \/ GetFuture
    \/ AndThen
    \/ NewSharedPromise
    \/ SharedSetValueOther
    \/ DestroySharedPromiseOther
    \/ DestroyPromise
    \/ DestroyFuture
    \/ RunTask

SpecHandoff == Init /\ [][NextHandoff]_vars

\* ----------------------------------------------------------- SharedFuture
\* SharedFuture objects that share the State at a time.
MaxSharedFutures == 2

\* What the history records a callable run by the task runner of a sequence
\* as having run during.
RunTaskOn(runner) == IF runner = HomeRunner THEN "RunTask" ELSE "RunTask@" \o ToString(runner)

\* The caller on the sequence of the given task runner hands a listener in.
HandInListener(S, runner) == [S EXCEPT !.cbs = Append(@, [kind |-> "store", src |-> S.sharedFuture.id, late |-> S.sharedFuture.value_ # <<>>, out |-> 0, inner |-> 0, runner |-> runner])]

\* SharedFuture shared_future(std::move(future));
NewSharedFuture ==
    /\ Running /\ ~sharedFuture.made
    /\ (\E f \in UserF : Commit(SharedFutureCtor(Begin("SharedFuture"), f), Op("SharedFuture", f, fut[f].id, 0, 0, <<>>)))
    /\ UNCHANGED <<nextId, own, moves>>

\* shared_future.AndThen(callback) through a copy of the SharedFuture held on
\* the sequence of the given task runner.
SharedAndThen ==
    /\ Running /\ sharedFuture.handles > 0 /\ CanHandIn
    /\ (\E runner \in Runners : Commit(SharedFutureAndThen(HandInListener(Begin("SharedFuture::AndThen"), runner), Len(cbs) + 1, runner), Op("SharedFuture::AndThen", runner, sharedFuture.id, Len(cbs) + 1, 0, <<>>)))
    /\ UNCHANGED <<nextId, own, moves>>

\* SharedFuture copy(shared_future);
CopySharedFuture ==
    /\ Running /\ sharedFuture.handles > 0 /\ sharedFuture.handles < MaxSharedFutures
    /\ Commit(SharedFutureCopy(Begin("SharedFuture(copy)")), Op("SharedFuture(copy)", 0, sharedFuture.id, 0, 0, <<>>))
    /\ UNCHANGED <<nextId, own, moves>>

\* A SharedFuture goes out of scope.
DestroySharedFuture ==
    /\ Running /\ sharedFuture.handles > 0
    /\ Commit(SharedFutureDtor(Begin("~SharedFuture")), Op("~SharedFuture", 0, sharedFuture.id, 0, 0, <<>>))
    /\ UNCHANGED <<nextId, own, moves>>

\* The task runner of another sequence runs the task at the head of its queue.
RunRemoteTask ==
    /\ Running
    /\ (\E runner \in OtherRunners :
          /\ remote[runner] # <<>>
          /\ Commit(RunCallback([Begin(RunTaskOn(runner)) EXCEPT !.remote[runner] = Tail(@)], Head(remote[runner]).cb, Head(remote[runner]).v), Op(RunTaskOn(runner), runner, 0, Head(remote[runner]).cb.k, Head(remote[runner]).v, <<>>)))
    /\ UNCHANGED <<nextId, own, moves>>

NextSharedFuture ==
    \/ NewPromise
    \/ GetFuture
    \/ SetValue
    \/ SetValueWithSideEffects
    \/ NewSharedFuture
    \/ CopySharedFuture
    \/ SharedAndThen
    \/ DestroySharedFuture
    \/ DestroyPromise
    \/ RunTask
    \/ RunRemoteTask

SpecSharedFuture == Init /\ [][NextSharedFuture]_vars

\* State::SetValue tasks waiting on the constructing sequence.
PendingStateSets == Cardinality({i \in 1..Len(tasks) : tasks[i].cb.kind = "SharedFuture::State::SetValue"})

\* A further State::SetValue(v) is posted to the constructing sequence, as
\* OnComplete posts the first: the method is exercised with value_ set.
StateSetValueAgain ==
    /\ Running /\ sharedFuture.made /\ ~sharedFuture.destroyed /\ PendingStateSets = 0
    /\ (\E v \in Val : Commit(SharedFutureOnComplete(Begin("State::SetValue"), v), Op("State::SetValue", 0, sharedFuture.id, 0, v, <<>>)))
    /\ UNCHANGED <<nextId, own, moves>>

\* One SharedFuture object, State::SetValue posted any number of times.
NextSharedState ==
    \/ NewPromise
    \/ GetFuture
    \/ SetValue
    \/ SetValueWithSideEffects
    \/ NewSharedFuture
    \/ SharedAndThen
    \/ DestroySharedFuture
    \/ DestroyPromise
    \/ RunTask
    \/ RunRemoteTask
    \/ StateSetValueAgain

SpecSharedState == Init /\ [][NextSharedState]_vars

\* ------------------------------------------------------ coroutine support
\* Future<int> fn(args...) { int value = co_await std::move(future);
\* co_return value * 2 (or value * value); } called with a Future<int> the
\* caller holds.
CallCoroutine ==
    /\ Running /\ CanNewPair /\ frame.state = "none"
    /\ (\E f \in UserF, fn \in CoroutineFns : Commit(Coroutine(Begin("Coroutine"), f, nextId, fn), Op("Coroutine", f, nextId, 0, 0, <<>>)))
    /\ nextId' = nextId + 1
    /\ UNCHANGED <<own, moves>>

\* An object one of the frame's WeakPtrs points to is destroyed.
InvalidateCapability ==
    /\ Running /\ frame.state # "none"
    /\ (\E c \in 1..NCaps : frame.ptrs_[c] /\ Commit(InvalidateWeakPtr(Begin("Invalidate"), c), Op("Invalidate", c, frame.id, 0, 0, <<>>)))
    /\ UNCHANGED <<nextId, own, moves>>

NextCoroutine ==
    \/ NewPromise
    \/ GetFuture
    \/ MakeReady
    \/ SetValue
    \/ SetValueWithSideEffects
    \/ CallCoroutine
    \/ InvalidateCapability
    \/ AndThen
    \/ GetValueSynchronously
    \/ DestroyPromise
    \/ DestroyFuture
    \/ RunTask

SpecCoroutine == Init /\ [][NextCoroutine]_vars

\* The step of RunTask as its record shows it: of the steps of NextCoroutine
\* only RunTask leaves this record.
HeadTaskRun == Running /\ tasks # <<>> /\ last' = Op("RunTask", 0, 0, Head(tasks).cb.k, Head(tasks).v, <<>>)

\* The same program on a task runner that keeps running: the task at the
\* head of the queue is run in the end (a SequencedTaskRunner runs its
\* queue in order and does not stop while the process lives).
SpecCoroutineFair == Init /\ [][NextCoroutine]_vars /\ WF_last(HeadTaskRun)

\* ----------------------------------------- two pairs, move-assignments
\* The pairs a run makes and the move-assignments it performs.
MaxAssignPairs == 2
MaxAssigns == 2

\* Promise<T> promise; up to MaxAssignPairs in a run.
NewPromiseOfPair ==
    /\ Running /\ nextId <= MaxAssignPairs /\ CanHoldP
    /\ Commit(PromiseCtor(Begin("Promise"), AllocP(Heap), nextId), Op("Promise", AllocP(Heap), nextId, 0, 0, <<>>))
    /\ nextId' = nextId + 1
    /\ UNCHANGED <<own, moves>>

\* future = std::move(other); for two Futures the caller holds.
AssignFuture ==
    /\ Running /\ moves < MaxAssigns
    /\ (\E dst \in UserF, src \in UserF : dst # src /\ Commit(FutureMoveAssign(Begin("AssignFuture"), dst, src), Op("AssignFuture", dst, fut[src].id, 0, 0, <<>>)))
    /\ moves' = moves + 1
    /\ UNCHANGED <<nextId, own>>

\* promise = std::move(other); for two Promises the caller holds.
AssignPromise ==
    /\ Running /\ moves < MaxAssigns
    /\ (\E dst \in UserP, src \in UserP : dst # src /\ Commit(PromiseMoveAssign(Begin("AssignPromise"), dst, src), Op("AssignPromise", dst, prom[src].id, 0, 0, <<>>)))
    /\ moves' = moves + 1
    /\ UNCHANGED <<nextId, own>>

NextAssign ==
    \/ NewPromiseOfPair
    \/ GetFuture
    \/ AssignFuture
    \/ AssignPromise
    \/ SetValue
    \/ GetValueSynchronously
    \/ DestroyFuture
    \/ DestroyPromise

SpecAssign == Init /\ [][NextAssign]_vars

\* ------------------------------------- return_value(Future<T>) (future.h)
\* Future<int> result = Nested(std::move(future));
CallNested ==
    /\ Running /\ CanNewPair /\ frame.state = "none"
    /\ (\E f \in UserF : Commit(Nested(Begin("Nested"), f, nextId), Op("Nested", f, nextId, 0, 0, <<>>)))
    /\ nextId' = nextId + 1
    /\ UNCHANGED <<own, moves>>

NextNested ==
    \/ NewPromise
    \/ GetFuture
    \/ MakeReady
    \/ SetValue
    \/ SetValueWithSideEffects
    \/ CallNested
    \/ AndThen
    \/ GetValueSynchronously
    \/ DestroyPromise
    \/ DestroyFuture
    \/ RunTask

SpecNested == Init /\ [][NextNested]_vars

\* Callers of suspending functions of every kind: those that await and
\* return a value, and the one that returns a Future.
NextFrames ==
    \/ NextCoroutine
    \/ CallNested

SpecFrames == Init /\ [][NextFrames]_vars

\* ------------------------------------------------------------ properties
\* The places in `calls` where the caller's callable k was run.
Calls(k) == {i \in 1..Len(calls) : calls[i].k = k}
\* The task runner has nothing left to run.
Drained == Running /\ tasks = <<>>
\* A callable has been handed in for the Future of pair id.
Attached(id) == \E k \in 1..Len(cbs) : cbs[k].src = id
\* No Future of pair id is left (moved-from shells aside).
FutureGone(id) == \A f \in AllF : fut[f].live => (fut[f].id # id \/ fut[f].mf)
\* No Promise of pair id is left (moved-from shells aside).
PromiseGone(id) == \A p \in PPool : prom[p].live => (prom[p].id # id \/ prom[p].mf)
\* Pair id has been settled by Promise::SetValue (not the side-effecting one).
SetBySetValue(id) == settled[id] # <<>> /\ ~settled[id][1].wse

\* C1: a continuation attached with AndThen to a pair settled with
\* SetValue(v), in either order, is run at most once, only with v and only
\* from an executor task; once the executor has drained, exactly once.
C1_ExactlyOnceDelivery == \A k \in 1..Len(cbs) :
    (cbs[k].kind = "store" /\ SetBySetValue(cbs[k].src)) =>
        /\ Cardinality(Calls(k)) <= 1
        /\ \A i \in Calls(k) : calls[i].v = settled[cbs[k].src][1].v /\ calls[i].during = "RunTask"
        /\ (Drained => Cardinality(Calls(k)) = 1)

\* C1 witness: attached first, settled by SetValue later, run once.
C1_Witness == \E k \in 1..Len(cbs) :
    /\ cbs[k].kind = "store" /\ ~cbs[k].late /\ SetBySetValue(cbs[k].src)
    /\ settled[cbs[k].src][1].during = "SetValue"
    /\ Drained /\ Cardinality(Calls(k)) = 1

\* C2: AndThen on a settled Future, and SetValue on a Promise holding a
\* continuation, run nothing inside the call and post exactly one task that
\* carries the continuation and the value; a continuation is only ever run
\* by an executor task or by SetValueWithSideEffects.
C2_FutureTurn == [][
    /\ (last'.op = "AndThen" /\ fut[last'.loc].value # <<>> /\ ~fut[last'.loc].mf /\ ~Attached(last'.id)) =>
          /\ crashed' = "none"
          /\ calls' = calls
          /\ tasks' = Append(tasks, [cb |-> UserCallback(last'.k), v |-> fut[last'.loc].value[1]])
    /\ (last'.op = "SetValue" /\ prom[last'.loc].callback # NullCallback /\ ~prom[last'.loc].mf /\ settled[last'.id] = <<>>) =>
          /\ crashed' = "none"
          /\ calls' = calls
          /\ tasks' = Append(tasks, [cb |-> prom[last'.loc].callback, v |-> last'.v])
    /\ (calls' # calls => last'.op \in {"RunTask", "SetValueWithSideEffects"})
    ]_vars

\* C2 witness: AndThen on an already settled Future has returned; the task
\* is queued and no callable has run.
C2_Witness == /\ last.op = "AndThen" /\ cbs[last.k].late /\ Running
    /\ Len(tasks) = 1 /\ tasks[1].cb = UserCallback(last.k) /\ calls = <<>>

\* C3: SetValue or SetValueWithSideEffects on a Promise whose pair has been
\* settled already, at the same or a moved location, aborts: no task is
\* posted, no callable is run, the value taken before stays.
C3_DoubleSettlementFatal == [][
    (last'.op \in {"SetValue", "SetValueWithSideEffects"} /\ settled[last'.id] # <<>>) =>
        /\ crashed' # "none"
        /\ tasks' = tasks
        /\ calls' = calls
        /\ settled' = settled
    ]_vars

\* C3 witness: the second SetValue, at the location the Promise was moved
\* to after the first, has aborted.
C3_Witness == /\ last.op = "SetValue" /\ crashed = "CHECK(active_)"
    /\ settled[last.id] # <<>> /\ moves > 0 /\ last.loc > 1

\* The Future at f holds a value that the preceding call, a
\* GetValueSynchronously on f, has returned to the caller.
TakenSynchronously(f) == last.op = "GetValueSynchronously" /\ last.loc = f /\ last.ret # <<>>

\* C4: AndThen on a Future that has had a continuation attached, whose value
\* was taken by GetValueSynchronously, or that has been moved from, aborts;
\* no task is posted and no callable is run.
C4_AndThenOnConsumedFatal == [][
    (last'.op = "AndThen" /\ (Attached(last'.id) \/ fut[last'.loc].mf \/ TakenSynchronously(last'.loc))) =>
        /\ crashed' # "none"
        /\ tasks' = tasks
        /\ calls' = calls
    ]_vars

\* C4, the part the code keeps: AndThen on a Future that has had a
\* continuation attached or that has been moved from aborts.
C4_AndThenTwiceOrMovedFatal == [][
    (last'.op = "AndThen" /\ (Attached(last'.id) \/ fut[last'.loc].mf)) =>
        /\ crashed' # "none"
        /\ tasks' = tasks
        /\ calls' = calls
    ]_vars

\* C5: AndThen on a Future without a value whose Promise was destroyed
\* before settling aborts.
C5_DanglingAttachFatal == [][
    (/\ last'.op = "AndThen"
     /\ fut[last'.loc].value = <<>> /\ ~fut[last'.loc].mf /\ ~Attached(last'.id)
     /\ settled[last'.id] = <<>> /\ PromiseGone(last'.id)) =>
        crashed' # "none"
    ]_vars

\* C6: SetValue on a Promise whose Future was destroyed with no continuation
\* attached returns normally: no abort, no write to a destroyed Future, no
\* task, no callable run, no Future changed.
C6_SetValueAfterFutureGone == [][
    (/\ last'.op = "SetValue"
     /\ ~prom[last'.loc].mf /\ settled[last'.id] = <<>>
     /\ FutureGone(last'.id) /\ prom[last'.loc].callback = NullCallback) =>
        /\ crashed' = "none"
        /\ ~ub'
        /\ tasks' = tasks
        /\ calls' = calls
        /\ fut' = fut
    ]_vars

\* C6 witness: the Future was taken and destroyed, then SetValue returned.
C6_Witness == /\ last.op = "SetValue" /\ Running
    /\ settled[last.id] # <<>> /\ settled[last.id][1].during = "SetValue" /\ FutureGone(last.id)
    /\ \E p \in UserP : prom[p].id = last.id /\ ~prom[p].active /\ prom[p].future_ptr = nullptr /\ tasks = <<>>

\* C7: GetValueSynchronously returns the value exactly when the pair is
\* settled and nothing has consumed the Future, posts nothing, and leaves
\* the Future without a value, so that a second call returns nothing.
C7_GetValueSynchronouslyConsumes == last.op = "GetValueSynchronously" =>
    /\ (last.ret # <<>> => settled[last.id] # <<>> /\ last.ret = <<settled[last.id][1].v>>)
    /\ (last.ret # <<>> => FutureGetValueSynchronously(Heap, last.loc) = <<>>)

\* C7 holds of what is returned: nothing before the pair is settled, else
\* the settled value, and the call changes nothing else.
C7_ReturnsSettledValue == last.op = "GetValueSynchronously" =>
    (last.ret # <<>> => settled[last.id] # <<>> /\ last.ret = <<settled[last.id][1].v>>)

\* A callable attached after the caller's SetValueWithSideEffects(v) found no
\* continuation is run at most once, with v, from an executor task, and
\* exactly once when the executor has drained.
LateDeliveryAfterSideEffects == \A k \in 1..Len(cbs) :
    (cbs[k].kind = "store" /\ cbs[k].late /\ settled[cbs[k].src][1].during = "SetValueWithSideEffects") =>
        /\ Cardinality(Calls(k)) <= 1
        /\ \A i \in Calls(k) : calls[i].v = settled[cbs[k].src][1].v /\ calls[i].during = "RunTask"
        /\ (Drained => Cardinality(Calls(k)) = 1)

\* What running the continuation cb with v inside the call comes to: the
\* caller's callable is the next one run, with v; the unwrapping continuation
\* settles the Promise it is bound to with v.
RanInside(cb, v) == IF cb.kind = "UnwrapFutureValue"
    THEN settled'[prom[cb.promise].id] = <<[v |-> v, during |-> "SetValueWithSideEffects", wse |-> TRUE]>>
    ELSE Len(calls') > Len(calls) /\ calls'[Len(calls) + 1] = [k |-> cb.k, v |-> v, during |-> "SetValueWithSideEffects"]

\* C8: SetValueWithSideEffects(v) on a Promise holding a continuation runs
\* it with v before returning and posts no task for it (none at all when it
\* is the caller's callable); with no continuation it stores v in the linked
\* Future, posts and runs nothing, and a callable attached later is
\* delivered v by an executor task.
C8_SetValueWithSideEffects == [][
    /\ (last'.op = "SetValueWithSideEffects" /\ ~prom[last'.loc].mf /\ settled[last'.id] = <<>>) =>
          /\ crashed' = "none"
          /\ prom[last'.loc].callback # NullCallback =>
                /\ RanInside(prom[last'.loc].callback, last'.v)
                /\ \A i \in 1..Len(tasks') : tasks'[i].cb # prom[last'.loc].callback
                /\ Len(tasks') >= Len(tasks) /\ SubSeq(tasks', 1, Len(tasks)) = tasks
          /\ prom[last'.loc].callback.kind = "user" =>
                /\ calls' = Append(calls, [k |-> prom[last'.loc].callback.k, v |-> last'.v, during |-> "SetValueWithSideEffects"])
                /\ tasks' = tasks
          /\ (prom[last'.loc].callback = NullCallback /\ prom[last'.loc].future_ptr # nullptr) =>
                /\ fut'[prom[last'.loc].future_ptr].value = <<last'.v>>
                /\ tasks' = tasks
                /\ calls' = calls
    /\ LateDeliveryAfterSideEffects'
    ]_vars

\* C8 witness: SetValueWithSideEffects has run the caller's callable inside
\* the call; no task was posted.
C8_Witness == /\ last.op = "SetValueWithSideEffects" /\ Running /\ tasks = <<>>
    /\ calls # <<>> /\ calls[Len(calls)].during = "SetValueWithSideEffects"
    /\ calls[Len(calls)].v = last.v /\ cbs[calls[Len(calls)].k].kind = "store"

\* Transform(f) on a Future of a pair settled with v, AndThen(g) on the
\* returned Future: f and g are run at most once each, f with v and g with
\* f(v), g from an executor task; once the executor has drained, once each.
TransformThenAndThen(kf, kg) ==
    /\ Cardinality(Calls(kf)) <= 1
    /\ Cardinality(Calls(kg)) <= 1
    /\ \A i \in Calls(kf) : calls[i].v = settled[cbs[kf].src][1].v
    /\ \A i \in Calls(kg) : calls[i].v = Apply("half", settled[cbs[kf].src][1].v) /\ calls[i].during = "RunTask"
    /\ (Drained => Cardinality(Calls(kf)) = 1 /\ Cardinality(Calls(kg)) = 1)

\* C9: for a Future settled with v, however it was settled and whether
\* before or after the chain was built, Transform(f) then AndThen(g) runs f
\* once with v and g once with f(v), g not before the executor's next turn.
C9_TransformPurity == \A kf, kg \in 1..Len(cbs) :
    (cbs[kf].kind = "half" /\ cbs[kg].kind = "store" /\ cbs[kg].src = cbs[kf].out /\ settled[cbs[kf].src] # <<>>) =>
        TransformThenAndThen(kf, kg)

\* The value v reached the source Promise from inside the caller's
\* SetValueWithSideEffects after Transform(f) was called.
SettledInsideCall(kf) == settled[cbs[kf].src][1].during = "SetValueWithSideEffects" /\ ~cbs[kf].late

\* Transform(f) was attached before the SetValueWithSideEffects(v) that
\* settled the source: f has run once, with v, inside that call, and the
\* returned Future's pair was settled with f(v) inside it.  With AndThen(g)
\* attached before the call too, g has run once, with f(v), inside the call
\* and after f; attached after the call, g is run at most once, with f(v),
\* from an executor task, and once when the executor has drained.
TransformInsideCall(kf, kg) ==
    /\ Cardinality(Calls(kf)) = 1
    /\ \A i \in Calls(kf) : calls[i].v = settled[cbs[kf].src][1].v /\ calls[i].during = "SetValueWithSideEffects"
    /\ settled[cbs[kf].out] = <<[v |-> Apply("half", settled[cbs[kf].src][1].v), during |-> "SetValueWithSideEffects", wse |-> TRUE]>>
    /\ \A i \in Calls(kg) : calls[i].v = Apply("half", settled[cbs[kf].src][1].v) /\ \A j \in Calls(kf) : j < i
    /\ ~cbs[kg].late =>
          /\ Cardinality(Calls(kg)) = 1
          /\ \A i \in Calls(kg) : calls[i].during = "SetValueWithSideEffects"
    /\ cbs[kg].late =>
          /\ Cardinality(Calls(kg)) <= 1
          /\ \A i \in Calls(kg) : calls[i].during = "RunTask"
          /\ Drained => Cardinality(Calls(kg)) = 1

\* C9 amended: Transform(f) then AndThen(g) runs f once with v and g once
\* with f(v), whether the source was settled before or after the chain was
\* built; g is not run before the executor's next turn, except when v
\* reaches the source Promise from inside a SetValueWithSideEffects call
\* made after Transform(f): then f runs inside that call, and so does g when
\* it was attached before the call, while a g attached after the call is
\* run on a later turn.
C9_TransformChain == \A kf, kg \in 1..Len(cbs) :
    (/\ cbs[kf].kind = "half" /\ cbs[kg].kind = "store" /\ cbs[kg].src = cbs[kf].out
     /\ settled[cbs[kf].src] # <<>>) =>
        IF SettledInsideCall(kf) THEN TransformInsideCall(kf, kg) ELSE TransformThenAndThen(kf, kg)

\* C9 witness: the chain was built first, the source settled by SetValue(v)
\* later; f has run with v and g with f(v).
C9_Witness == \E kf, kg \in 1..Len(cbs) :
    /\ cbs[kf].kind = "half" /\ cbs[kg].kind = "store" /\ cbs[kg].src = cbs[kf].out
    /\ ~cbs[kf].late /\ SetBySetValue(cbs[kf].src) /\ Drained
    /\ \E i \in Calls(kf), j \in Calls(kg) : i < j /\ calls[j].v = Half(calls[i].v)

\* C9 witness of the side-effecting case: the chain was built, then the
\* source settled with SetValueWithSideEffects(v); f and g have both run
\* inside that call and nothing is left to run.
C9_InsideCallWitness == \E kf, kg \in 1..Len(cbs) :
    /\ cbs[kf].kind = "half" /\ cbs[kg].kind = "store" /\ cbs[kg].src = cbs[kf].out
    /\ settled[cbs[kf].src] # <<>> /\ SettledInsideCall(kf) /\ ~cbs[kg].late
    /\ last.op = "SetValueWithSideEffects" /\ tasks = <<>>
    /\ \E i \in Calls(kf), j \in Calls(kg) : i < j /\ calls[j].v = Half(calls[i].v) /\ calls[j].during = "SetValueWithSideEffects"

\* C9 witness of the mixed case: Transform(f) before the side-effecting
\* call, AndThen(g) after it; f ran inside the call and g from a task.
C9_LateAndThenWitness == \E kf, kg \in 1..Len(cbs) :
    /\ cbs[kf].kind = "half" /\ cbs[kg].kind = "store" /\ cbs[kg].src = cbs[kf].out
    /\ settled[cbs[kf].src] # <<>> /\ SettledInsideCall(kf) /\ cbs[kg].late /\ Drained
    /\ \E i \in Calls(kf), j \in Calls(kg) : calls[i].during = "SetValueWithSideEffects" /\ calls[j].during = "RunTask" /\ calls[j].v = Half(calls[i].v)

\* C10: the Future returned by the chaining AndThen is settled only once
\* the Future returned by the continuation is, with the same value, and is
\* settled once that one is and the executor has drained; a callable
\* attached to it is run at most once, with that value, and exactly once
\* when the executor has drained.
C10_ChainingAndThen == \A kf \in 1..Len(cbs) : cbs[kf].kind \in {"ready", "pending"} =>
    /\ settled[cbs[kf].out] # <<>> =>
          /\ settled[cbs[kf].inner] # <<>>
          /\ settled[cbs[kf].out][1].v = settled[cbs[kf].inner][1].v
    /\ (settled[cbs[kf].inner] # <<>> /\ Drained) => settled[cbs[kf].out] # <<>>
    /\ \A kg \in 1..Len(cbs) : (cbs[kg].kind = "store" /\ cbs[kg].src = cbs[kf].out /\ settled[cbs[kf].inner] # <<>>) =>
          /\ Cardinality(Calls(kg)) <= 1
          /\ \A i \in Calls(kg) : calls[i].v = settled[cbs[kf].inner][1].v
          /\ (Drained => Cardinality(Calls(kg)) = 1)

\* C10 witness: the continuation returned the Future of a Promise the caller
\* kept and settled later; the callable attached to the returned Future has
\* run once with that value.
C10_Witness == \E kf, kg \in 1..Len(cbs) :
    /\ cbs[kf].kind = "pending" /\ cbs[kg].kind = "store" /\ cbs[kg].src = cbs[kf].out
    /\ settled[cbs[kf].inner] # <<>> /\ settled[cbs[kf].inner][1].during = "SetValue"
    /\ Drained /\ Cardinality(Calls(kg)) = 1
    /\ \A i \in Calls(kg) : calls[i].v = settled[cbs[kf].inner][1].v /\ calls[i].v # settled[cbs[kf].src][1].v

\* The Future of pair id (not a moved-from shell), handed out by GetFuture,
\* is held by the caller.
Yielded(id) == \E f \in FPool : fut[f].live /\ fut[f].id = id /\ ~fut[f].mf

\* C11: GetFuture on a Promise of a pair whose Future has been handed out
\* already aborts, at whatever location of the pair it is called (the
\* Promise itself, one it was moved to, one it was moved from), and yields
\* no second Future.
C11_GetFutureOnce == [][
    (last'.op = "GetFuture" /\ Yielded(last'.id)) =>
        /\ crashed' # "none"
        /\ \A f \in FPool : fut'[f].live => fut[f].live
    ]_vars

\* C11, the part the code keeps: the additional call aborts when made on a
\* Promise that has not been moved from.
C11_GetFutureTwiceFatal == [][
    (last'.op = "GetFuture" /\ Yielded(last'.id) /\ ~prom[last'.loc].mf) => crashed' # "none"
    ]_vars

\* Every back-reference that is set names a live object of the same pair
\* whose own back-reference names the object holding it.
BackReferencesAgree ==
    /\ \A p \in PPool : (prom[p].live /\ prom[p].future_ptr # nullptr) =>
          /\ fut[prom[p].future_ptr].live
          /\ fut[prom[p].future_ptr].promise_ptr = p
          /\ fut[prom[p].future_ptr].id = prom[p].id
    /\ \A f \in AllF : (fut[f].live /\ fut[f].promise_ptr # nullptr) =>
          /\ prom[fut[f].promise_ptr].live
          /\ prom[fut[f].promise_ptr].future_ptr = f
          /\ prom[fut[f].promise_ptr].id = fut[f].id

\* The Promise at p is the unsettled Promise of its pair, with no continuation.
OpenPromise(p) == prom[p].live /\ ~prom[p].mf /\ prom[p].active /\ prom[p].callback = NullCallback
\* The Future at f is the Future of its pair, with no continuation attached.
OpenFuture(f) == fut[f].live /\ ~fut[f].mf /\ fut[f].active

\* C20: while a pair is unsettled with no continuation attached, wherever
\* its Promise and its Future have been moved to, each one's back-reference
\* names the other's current location; once one side is destroyed the
\* other's back-reference is null; SetValue and AndThen through the moved
\* handles deliver as on the originals.
C20_LinksSurviveMoves ==
    /\ BackReferencesAgree
    /\ \A p \in PPool, f \in AllF : (OpenPromise(p) /\ OpenFuture(f) /\ fut[f].id = prom[p].id) =>
          prom[p].future_ptr = f /\ fut[f].promise_ptr = p
    /\ \A p \in PPool : (OpenPromise(p) /\ FutureGone(prom[p].id)) => prom[p].future_ptr = nullptr
    /\ \A f \in AllF : (OpenFuture(f) /\ PromiseGone(fut[f].id)) => fut[f].promise_ptr = nullptr
    /\ C1_ExactlyOnceDelivery

\* C20 witness: the Promise and the Future have both been moved, MaxLinkMoves
\* times in all, and are linked at their current locations.
C20_Witness == /\ moves = MaxLinkMoves /\ Running
    /\ \E p \in PPool, f \in FPool :
          /\ OpenPromise(p) /\ OpenFuture(f) /\ prom[p].future_ptr = f /\ fut[f].promise_ptr = p
          /\ \E q \in PPool : prom[q].live /\ prom[q].mf
          /\ \E g \in FPool : fut[g].live /\ fut[g].mf

\* C19: a call on a Future or a Promise made on a sequence other than the
\* one that created the pair aborts, and posts, runs and settles nothing.
C19_OtherSequenceFatal == [][
    last'.op \in OtherOps =>
        /\ crashed' # "none"
        /\ tasks' = tasks
        /\ calls' = calls
        /\ settled' = settled
    ]_vars

\* C19, the part the code keeps: AndThen, SetValue, SetValueWithSideEffects,
\* GetFuture and the destructors abort on the other sequence.
C19_CheckedCallsFatal == [][
    last'.op \in (OtherOps \ {"GetValueSynchronously/other", "MoveFuture/other", "MovePromise/other"}) =>
        /\ crashed' = "DCHECK_CALLED_ON_VALID_SEQUENCE"
        /\ tasks' = tasks
        /\ calls' = calls
        /\ settled' = settled
    ]_vars

\* A pair is settled from an executor task only; a callable attached to its
\* Future is run at most once, with the settled value, and exactly once when
\* the pair is settled and the executor has drained; a pair whose resolve
\* callback has been run is settled when the executor has drained.
SettledByTask ==
    /\ \A id \in 1..MaxPairs : settled[id] # <<>> => settled[id][1].during = "RunTask"
    /\ \A k \in 1..Len(cbs) :
          /\ Cardinality(Calls(k)) <= 1
          /\ \A i \in Calls(k) : settled[cbs[k].src] # <<>> /\ calls[i].v = settled[cbs[k].src][1].v
          /\ (Drained /\ settled[cbs[k].src] # <<>>) => Cardinality(Calls(k)) = 1
    /\ \A id \in 1..MaxPairs : (Drained /\ id < nextId /\ \A p \in Resolvers : prom[p].id # id) => settled[id] # <<>>

\* C12: running the resolve callback of MakeFuture, inside the producer or
\* later, on any sequence, settles nothing in that call: it posts one task
\* to the sequence MakeFuture was called on, that task settles the Promise
\* with the resolved value, and a continuation attached to the returned
\* Future before or after is run exactly once with that value.
C12_MakeFuture == [][
    /\ last'.op \in {"Resolve", "Resolve/other"} =>
          /\ settled' = settled /\ calls' = calls /\ fut' = fut
          /\ tasks' = Append(tasks, [cb |-> BoundCallback("WrapPromise", 0, last'.loc), v |-> last'.v])
    /\ last'.op = "MakeFuture" => settled' = settled /\ calls' = calls
    /\ (last'.op = "RunTask" /\ Head(tasks).cb.kind = "WrapPromise") =>
          settled'[prom[Head(tasks).cb.promise].id] = <<[v |-> Head(tasks).v, during |-> "RunTask", wse |-> TRUE]>>
    /\ SettledByTask'
    ]_vars

\* C12 witness: resolve was run inside the producer, the continuation was
\* attached before the posted task ran, and has run once with the value.
C12_Witness == \E k \in 1..Len(cbs) :
    /\ ~cbs[k].late /\ Drained /\ Cardinality(Calls(k)) = 1
    /\ settled[cbs[k].src] # <<>> /\ calls[1].v = settled[cbs[k].src][1].v
    /\ Resolvers = {}

\* The task at the head of the queue is a State::SetValue and it is run.
StateSetValueRuns == tasks # <<>> /\ Head(tasks).cb.kind = "SharedPromise::State::SetValue" /\ last'.op = "RunTask"

\* The continuations attached to the Future of the wrapped Promise are run at
\* most once, with the settled value, and once when settled and drained.
SharedConsumerOnce == \A k \in 1..Len(cbs) : cbs[k].src = sharedPromise.id =>
    /\ Cardinality(Calls(k)) <= 1
    /\ \A i \in Calls(k) : settled[cbs[k].src] # <<>> /\ calls[i].v = settled[cbs[k].src][1].v /\ calls[i].during = "RunTask"
    /\ (Drained /\ settled[cbs[k].src] # <<>>) => Cardinality(Calls(k)) = 1

\* C15: for a SharedPromise made from an unsettled Promise, whatever the
\* copies and the order of their SetValue calls: the first State::SetValue
\* task the owning sequence runs settles the Promise with its value and
\* clears promise_; every later one changes nothing and is not fatal; the
\* settled value never changes; the attached consumer is run exactly once
\* with that first value.
C15_FirstWriteWins == [][
    /\ (StateSetValueRuns /\ sharedPromise.fresh /\ sharedPromise.promise_ # nullptr) =>
          /\ crashed' = "none" /\ sharedPromise'.promise_ = nullptr
          /\ settled'[sharedPromise.id] = <<[v |-> Head(tasks).v, during |-> "RunTask", wse |-> FALSE]>>
    /\ (StateSetValueRuns /\ sharedPromise.made /\ sharedPromise.promise_ = nullptr) =>
          /\ crashed' = "none" /\ tasks' = Tail(tasks)
          /\ [sharedPromise' EXCEPT !.destroyed = FALSE] = sharedPromise
          /\ settled' = settled /\ calls' = calls /\ prom' = prom /\ fut' = fut
    /\ (sharedPromise.fresh /\ last'.op \in {"SharedPromise::SetValue", "SharedPromise::SetValue/other", "SharedPromise(copy)"}) => crashed' = "none"
    /\ (sharedPromise.fresh /\ settled[sharedPromise.id] # <<>>) => settled'[sharedPromise.id] = settled[sharedPromise.id]
    /\ sharedPromise'.fresh => SharedConsumerOnce'
    ]_vars

\* C15 witness: two copies, two SetValue calls with different values, both
\* tasks have run and the consumer has been run once with the first value.
C15_Witness ==
    /\ sharedPromise.fresh /\ sharedPromise.copies = 2 /\ sharedPromise.promise_ = nullptr /\ Drained
    /\ last.op = "RunTask" /\ settled[sharedPromise.id] # <<>> /\ last.v # settled[sharedPromise.id][1].v
    /\ \E k \in 1..Len(cbs) : cbs[k].src = sharedPromise.id /\ Cardinality(Calls(k)) = 1

\* C16: SharedPromise::SetValue on a sequence other than the constructing
\* one only posts a State::SetValue task to the owning sequence and leaves
\* every Promise and Future as it was; the Promise is settled inside that
\* task, with the value the other sequence gave, and the consumer's
\* continuation is run by the owning sequence's task runner with that value.
C16_SetValueFromOtherSequence == [][
    /\ last'.op = "SharedPromise::SetValue/other" =>
          /\ prom' = prom /\ fut' = fut /\ settled' = settled /\ calls' = calls /\ sharedPromise' = sharedPromise
          /\ tasks' = Append(tasks, [cb |-> StateSetValueCallback, v |-> last'.v])
    /\ (StateSetValueRuns /\ sharedPromise.fresh /\ sharedPromise.promise_ # nullptr) =>
          settled'[sharedPromise.id] = <<[v |-> Head(tasks).v, during |-> "RunTask", wse |-> FALSE]>>
    /\ (sharedPromise'.fresh /\ settled'[sharedPromise'.id] # <<>>) => settled'[sharedPromise'.id][1].during = "RunTask"
    /\ sharedPromise'.fresh => SharedConsumerOnce'
    ]_vars

\* C16 witness: the Promise was settled by a task after a SetValue on the
\* other sequence and the consumer has been run with that value; the Future
\* it was attached to was a temporary and the handle was destroyed on the
\* other sequence.
C16_Witness ==
    /\ sharedPromise.fresh /\ Drained /\ settled[sharedPromise.id] # <<>>
    /\ sharedPromise.destroyed /\ \A f \in UserF : ~fut[f].live
    /\ \E k \in 1..Len(cbs) : cbs[k].src = sharedPromise.id /\ ~cbs[k].late
          /\ \E i \in Calls(k) : calls[i].v = settled[sharedPromise.id][1].v /\ calls[i].during = "RunTask"

\* No task is waiting on any task runner.
AllDrained == Drained /\ \A runner \in OtherRunners : remote[runner] = <<>>

\* C13: every listener registered on the SharedFuture, from whichever
\* sequence and before or after the settlement, is run at most once, with
\* the settled value, by the task runner of the sequence that registered it,
\* and exactly once when the value is set and every task runner has drained;
\* the State holds the settled value for as long as it exists.
C13_SharedFanOut == \A k \in 1..Len(cbs) : (sharedFuture.made /\ cbs[k].src = sharedFuture.id) =>
    /\ Cardinality(Calls(k)) <= 1
    /\ \A i \in Calls(k) :
          /\ ~sharedFuture.destroyed => sharedFuture.value_ = <<calls[i].v>>
          /\ calls[i].during = RunTaskOn(cbs[k].runner)
          /\ settled[sharedFuture.id] # <<>> /\ settled[sharedFuture.id][1].v = calls[i].v
    /\ (AllDrained /\ settled[sharedFuture.id] # <<>>) => Cardinality(Calls(k)) = 1
    /\ (AllDrained /\ settled[sharedFuture.id] # <<>> /\ ~sharedFuture.destroyed) => sharedFuture.value_ # <<>>

\* C13 witness: two listeners registered from two different sequences, one
\* before and one after the settlement, each run once on its own sequence.
C13_Witness ==
    /\ sharedFuture.handles = MaxSharedFutures /\ AllDrained /\ Len(cbs) = 2 /\ cbs[1].runner # cbs[2].runner
    /\ ~cbs[1].late /\ cbs[2].late
    /\ \A k \in 1..2 : Cardinality(Calls(k)) = 1 /\ \A i \in Calls(k) : calls[i].during = RunTaskOn(cbs[k].runner) /\ cbs[k].runner # HomeRunner

\* The callables of a sequence of listeners, in order.
ListenerKeys(listeners) == [i \in 1..Len(listeners) |-> listeners[i].k]

\* C14: listeners are serviced in the order their registrations reached the
\* State: while the value is not set no notification is posted and
\* listeners_ holds the registrations in arrival order; once it is set the
\* notifications have been posted in arrival order; and of two listeners
\* registered from the same sequence the one whose AndThen call was made
\* first arrives first and is run first.
C14_RegistrationOrder == sharedFuture.made =>
    /\ (sharedFuture.value_ = <<>> /\ ~sharedFuture.destroyed) => sharedFuture.posted = <<>> /\ ListenerKeys(sharedFuture.listeners_) = sharedFuture.arrived
    /\ sharedFuture.posted = SubSeq(sharedFuture.arrived, 1, Len(sharedFuture.posted))
    /\ sharedFuture.value_ # <<>> => sharedFuture.posted = sharedFuture.arrived /\ sharedFuture.listeners_ = <<>>
    /\ \A k1, k2 \in 1..Len(cbs) : (k1 < k2 /\ cbs[k1].runner = cbs[k2].runner) =>
          /\ \A i \in Calls(k2) : \E j \in Calls(k1) : j < i
          /\ \A i \in 1..Len(sharedFuture.arrived) : sharedFuture.arrived[i] = k2 => \E j \in 1..(i - 1) : sharedFuture.arrived[j] = k1

\* C14 witness: two listeners registered from the same other sequence, the
\* first before the value was set and the second after, run in that order.
C14_Witness ==
    /\ sharedFuture.made /\ AllDrained /\ Len(cbs) = 2 /\ cbs[1].runner = cbs[2].runner /\ cbs[1].runner # HomeRunner
    /\ ~cbs[1].late /\ cbs[2].late /\ sharedFuture.posted = <<1, 2>>
    /\ Len(calls) = 2 /\ calls[1].k = 1 /\ calls[2].k = 2

\* Every WeakPtr of the frame is valid.
AllValid == \A c \in 1..NCaps : frame.ptrs_[c]

\* C17: a frame that is suspended leaves the await only in the step in which
\* the awaited Future's continuation runs: with every WeakPtr valid in that
\* step it resumes and runs the code after the await with the awaited
\* value; with any WeakPtr invalid it is destroyed in that step, its promise
\* and awaiter with it, the code after the await has not run and never
\* runs, and its result is never settled.
C17_CancellationOnInvalidation == [][
    /\ (frame.state = "Awaiting" /\ frame'.state # "Awaiting") =>
          /\ settled[frame.awaited] # <<>> \/ last'.op \in {"SetValue", "SetValueWithSideEffects"}
          /\ AllValid => frame'.state = "Completed" /\ frame'.after = <<settled'[frame.awaited][1].v>>
          /\ ~AllValid =>
                /\ frame'.state = "Cancelled" /\ frame'.after = <<>> /\ settled'[frame.id] = <<>>
                /\ ~prom'[frame.promise].live /\ ~fut'[frame.future_].live /\ calls' = calls
    /\ (frame.state = "Awaiting" /\ frame'.state = "Awaiting") => frame'.after = <<>> /\ settled'[frame.id] = <<>>
    /\ frame.state = "Cancelled" => frame'.state = "Cancelled" /\ frame'.after = <<>> /\ settled'[frame.id] = <<>>
    ]_vars

\* C17 witness: a WeakPtr became invalid while the frame was suspended and
\* the awaited Future unsettled; the awaited Future has then been settled,
\* its continuation has run in the settling call and the frame has been
\* destroyed without running the code after the await.
C17_Witness ==
    /\ frame.state = "Cancelled" /\ ~AllValid /\ settled[frame.awaited] # <<>> /\ frame.after = <<>>
    /\ last.op = "SetValueWithSideEffects" /\ last.id = frame.awaited /\ settled[frame.id] = <<>>

\* C17 witness of the same case with the continuation run as a task.
C17_TaskWitness ==
    /\ frame.state = "Cancelled" /\ ~AllValid /\ settled[frame.awaited] # <<>> /\ frame.after = <<>>
    /\ last.op = "RunTask" /\ settled[frame.id] = <<>>

\* C17 witness of the other case: the frame has resumed with all WeakPtrs
\* valid after having been suspended.
C17_ResumedWitness == frame.state = "Completed" /\ AllValid /\ last.op = "RunTask" /\ frame.after # <<>> /\ settled[frame.awaited][1].during = "SetValue"

\* The callables attached to the result Future of the suspending function
\* are run at most once, with the result, never during the attaching call,
\* and once when the function has completed and the executor has drained.
ResultConsumerOnce == \A k \in 1..Len(cbs) : cbs[k].src = frame.id =>
    /\ Cardinality(Calls(k)) <= 1
    /\ \A i \in Calls(k) : settled[frame.id] # <<>> /\ calls[i].v = settled[frame.id][1].v /\ calls[i].during # "AndThen"
    /\ (Drained /\ frame.state = "Completed") => Cardinality(Calls(k)) = 1

\* C18: the suspending function `int value = co_await future; co_return
\* value * 2;` (or `value * value`) settles its result exactly when it
\* completes, with the value it computes from the awaited value, whether the awaited Future was settled at the await or
\* later; the result never changes afterwards; a callable attached to the
\* result Future is not run during the attaching call and has been run once
\* with the result when the executor has drained.
C18_CoroutineResult == [][
    /\ frame'.state = "Completed" =>
          /\ settled'[frame'.awaited] # <<>> /\ settled'[frame'.id] # <<>>
          /\ settled'[frame'.id][1].v = CoroutineResult(frame'.fn, settled'[frame'.awaited][1].v)
          /\ frame'.after = <<settled'[frame'.awaited][1].v>>
    /\ frame'.state \in {"Running", "Awaiting", "Cancelled"} => settled'[frame'.id] = <<>>
    /\ (frame.state # "none" /\ settled[frame.id] # <<>>) => settled'[frame.id] = settled[frame.id]
    /\ last'.op = "AndThen" => calls' = calls
    /\ frame'.state # "none" => ResultConsumerOnce'
    ]_vars

\* C18 witness: the awaited Future was settled after the frame suspended, a
\* callable was attached to the result Future before that, and it has been
\* run once with the square of the awaited value, which differs from it.
C18_Witness ==
    /\ frame.state = "Completed" /\ Drained /\ settled[frame.awaited][1].during = "SetValue"
    /\ frame.fn = "HasAsync::DoAsyncWork" /\ settled[frame.awaited][1].v > 1
    /\ \E k \in 1..Len(cbs) : cbs[k].src = frame.id /\ ~cbs[k].late /\ Cardinality(Calls(k)) = 1
          /\ \A i \in Calls(k) : calls[i].v = CoroutineResult(frame.fn, settled[frame.awaited][1].v) /\ calls[i].during = "RunTask"

\* C18 witness of the other case: the function awaited MakeReadyFuture(v),
\* completed inside the call, and a callable attached afterwards has been
\* run by the executor with 2 * v.
C18_ReadyWitness ==
    /\ frame.state = "Completed" /\ Drained /\ settled[frame.awaited][1].during = "MakeReadyFuture"
    /\ frame.fn = "DoAsyncWork"
    /\ settled[frame.id][1].during = "Coroutine"
    /\ \E k \in 1..Len(cbs) : cbs[k].src = frame.id /\ cbs[k].late /\ Cardinality(Calls(k)) = 1
          /\ \A i \in Calls(k) : calls[i].v = CoroutineResult(frame.fn, settled[frame.awaited][1].v) /\ calls[i].during = "RunTask"

\* The task at the head of the constructing sequence's queue is of the given
\* kind and the step runs it.
HeadTaskRuns(kind) == tasks # <<>> /\ Head(tasks).cb.kind = kind /\ last'.op = "RunTask" /\ crashed' = "none"

\* Where PostTaskTo(runner, ...) has put a task in the step.
PostedTo(runner, task) == IF runner = HomeRunner THEN tasks' = Append(Tail(tasks), task) /\ remote' = remote
    ELSE tasks' = Tail(tasks) /\ remote' = [remote EXCEPT ![runner] = Append(@, task)]

\* C21: value_ of the State is written once: once set it keeps its value in
\* every later step; a State::SetValue run with value_ set changes nothing
\* and posts nothing; listeners_ is empty whenever value_ is set; and an
\* AddListener run with value_ set posts that listener's notification,
\* carrying value_, to the listener's task runner.
C21_ValueWrittenOnce == [][
    /\ (sharedFuture.value_ # <<>> /\ crashed' = "none" /\ ~sharedFuture'.destroyed) => sharedFuture'.value_ = sharedFuture.value_
    /\ (HeadTaskRuns("SharedFuture::State::SetValue") /\ sharedFuture.value_ # <<>>) =>
          /\ sharedFuture'.destroyed \/ sharedFuture' = sharedFuture
          /\ sharedFuture'.posted = sharedFuture.posted /\ tasks' = Tail(tasks) /\ remote' = remote /\ calls' = calls
    /\ (HeadTaskRuns("SharedFuture::State::SetValue") /\ sharedFuture.value_ = <<>> /\ ~sharedFuture'.destroyed) => sharedFuture'.value_ = <<Head(tasks).v>>
    /\ sharedFuture'.value_ # <<>> => sharedFuture'.listeners_ = <<>>
    /\ (HeadTaskRuns("SharedFuture::State::AddListener") /\ sharedFuture.value_ # <<>>) =>
          /\ PostedTo(Head(tasks).cb.runner, [cb |-> RunCompleteCallback(Head(tasks).cb.k), v |-> sharedFuture.value_[1]])
          /\ sharedFuture'.posted = Append(sharedFuture.posted, Head(tasks).cb.k)
    /\ crashed' = "none" => \A i \in 1..Len(calls') :
          /\ ~sharedFuture'.destroyed => sharedFuture'.value_ = <<calls'[i].v>>
          /\ calls'[i].v = calls'[1].v
    ]_vars

\* C21 witness: a second State::SetValue, with another value, has run after
\* the value was set, and a listener registered after that has been run
\* with the first value.
C21_Witness ==
    /\ sharedFuture.made /\ sharedFuture.value_ # <<>> /\ AllDrained
    /\ \E k \in 1..Len(cbs) : cbs[k].late /\ \E i \in Calls(k) : sharedFuture.value_ = <<calls[i].v>> /\ i = Len(calls)
    /\ \E k \in 1..Len(cbs) : ~cbs[k].late /\ Cardinality(Calls(k)) = 1
    /\ settled[sharedFuture.id] # <<>> /\ settled[sharedFuture.id][1].v # sharedFuture.value_[1]

\* The step runs FutureAwaiter::OnReady: as the task at the head of the
\* queue, or inside the SetValueWithSideEffects that settles the awaited pair.
OnReadyRuns ==
    \/ tasks # <<>> /\ Head(tasks).cb.kind = "FutureAwaiter::OnReady" /\ last'.op = "RunTask"
    \/ last'.op = "SetValueWithSideEffects" /\ last'.id = frame.awaited

\* C22: invalidating a WeakPtr changes that WeakPtr and nothing else, so a
\* suspended frame stays suspended; a suspended frame is torn down only in a
\* step that runs OnReady, the awaited pair being settled; and while the
\* awaited pair is unsettled the frame stays suspended, its promise and
\* awaiter alive, whatever its WeakPtrs.
C22_LazyCancellation == [][
    /\ last'.op = "Invalidate" =>
          /\ frame' = [frame EXCEPT !.ptrs_[last'.loc] = FALSE]
          /\ fut' = fut /\ prom' = prom /\ tasks' = tasks /\ settled' = settled /\ calls' = calls
    /\ (frame.state = "Awaiting" /\ frame'.state = "Cancelled") => OnReadyRuns /\ settled'[frame.awaited] # <<>> /\ ~AllValid
    /\ (frame.state = "Awaiting" /\ settled'[frame.awaited] = <<>> /\ crashed' = "none") =>
          frame'.state = "Awaiting" /\ prom'[frame.promise].live /\ fut'[frame.future_].live
    ]_vars

\* C22 witness: the frame is suspended with every WeakPtr invalid, the
\* awaited pair is unsettled and its Promise destroyed; the frame, its
\* promise and its awaiter are still there.
C22_Witness ==
    /\ frame.state = "Awaiting" /\ Running /\ \A c \in 1..NCaps : ~frame.ptrs_[c]
    /\ settled[frame.awaited] = <<>> /\ \A p \in PPool : ~(prom[p].live /\ prom[p].id = frame.awaited)
    /\ prom[frame.promise].live /\ fut[frame.future_].live /\ tasks = <<>>

\* The transitions of a frame.
FrameTransitions == {<<"Running", "Awaiting">>, <<"Awaiting", "Resuming">>, <<"Resuming", "Running">>, <<"Resuming", "Cancelled">>, <<"Running", "Completed">>}

\* The states the frame has been in start with Running, end with its
\* present state and follow the transitions; its result is settled exactly
\* when it is Completed.
FrameLifecycle == frame.state # "none" =>
    /\ frame.path[1] = "Running" /\ frame.path[Len(frame.path)] = frame.state
    /\ \A i \in 1..(Len(frame.path) - 1) : <<frame.path[i], frame.path[i + 1]>> \in FrameTransitions
    /\ settled[frame.id] # <<>> <=> frame.state = "Completed"
    /\ frame.state \in {"Completed", "Cancelled"} => frame.promise = nullptr /\ frame.future_ = nullptr

\* C23: a frame starts Running and takes only the transitions
\* Running->Awaiting, Awaiting->Resuming, Resuming->Running,
\* Resuming->Cancelled and Running->Completed; a Completed or Cancelled
\* frame never changes again nor does anything; the frame's Promise is
\* settled at most once, in the step that takes the frame to Completed.
C23_FrameStateMachine == [][
    /\ FrameLifecycle'
    /\ frame.state \in {"Completed", "Cancelled"} =>
          /\ frame'.state = frame.state /\ frame'.path = frame.path /\ frame'.after = frame.after
          /\ settled'[frame.id] = settled[frame.id]
    /\ (frame.state # "none" /\ settled[frame.id] # <<>>) => settled'[frame.id] = settled[frame.id]
    /\ (frame'.state # "none" /\ settled'[frame'.id] # <<>> /\ (frame.state = "none" \/ settled[frame'.id] = <<>>)) =>
          frame'.state = "Completed" /\ frame.state # "Completed"
    ]_vars

\* The frame's function returned a Future (co_return of a Future<T>).
ReturnedFuture(fr) == fr.nested # 0

\* The step hands the value of the Future the function returned on to the
\* lambda of return_value(Future<T>): the task a SetValue posted runs it, or
\* a SetValueWithSideEffects on that Future's Promise runs it inside the call.
NestedValueDelivered == (tasks # <<>> /\ Head(tasks).cb.kind = "CoroutinePromiseBase::return_value" /\ last'.op = "RunTask") \/ (last'.op = "SetValueWithSideEffects" /\ last'.id = frame.nested)

\* The states the frame has been in start with Running, end with its
\* present state and follow the transitions; its result is settled only
\* when it is Completed, and is settled when it is Completed after
\* returning a value.
FrameLifecycleOfAny == frame.state # "none" =>
    /\ frame.path[1] = "Running" /\ frame.path[Len(frame.path)] = frame.state
    /\ \A i \in 1..(Len(frame.path) - 1) : <<frame.path[i], frame.path[i + 1]>> \in FrameTransitions
    /\ settled[frame.id] # <<>> => frame.state = "Completed"
    /\ (frame.state = "Completed" /\ ~ReturnedFuture(frame)) => settled[frame.id] # <<>>
    /\ Len(settled[frame.id]) <= 1
    /\ frame.state \in {"Completed", "Cancelled"} => frame.promise = nullptr /\ frame.future_ = nullptr

\* C23 amended: a frame starts Running and takes only the five transitions;
\* a Completed or Cancelled frame never changes again nor runs anything; the
\* frame's Promise is settled at most once: in the step that takes the
\* frame to Completed when the function returns a value or a Future that
\* holds one, and, when it returns a Future that holds none, not in that
\* step but in the later step that delivers that Future's value, with that
\* value; a Cancelled frame's Promise is never settled.
C23_FrameStateMachineOfAny == [][
    /\ FrameLifecycleOfAny'
    /\ frame.state \in {"Completed", "Cancelled"} =>
          frame'.state = frame.state /\ frame'.path = frame.path /\ frame'.after = frame.after
    /\ (frame.state = "Cancelled" \/ (frame.state = "Completed" /\ ~ReturnedFuture(frame))) => settled'[frame.id] = settled[frame.id]
    /\ (frame.state # "none" /\ settled[frame.id] # <<>>) => settled'[frame.id] = settled[frame.id]
    /\ (frame.state # "Completed" /\ frame'.state = "Completed") =>
          /\ ~ReturnedFuture(frame') => settled'[frame'.id] # <<>>
          /\ ReturnedFuture(frame') => (settled'[frame'.id] # <<>> <=> fut[last'.loc].value # <<>>)
    /\ (frame.state = "Completed" /\ settled[frame.id] = <<>> /\ settled'[frame.id] # <<>>) =>
          /\ ReturnedFuture(frame) /\ NestedValueDelivered
          /\ settled'[frame.nested] # <<>> /\ settled'[frame.id][1].v = settled'[frame.nested][1].v
    /\ (frame.state = "Completed" /\ settled[frame.id] = <<>> /\ NestedValueDelivered /\ crashed' = "none") => settled'[frame.id] # <<>>
    ]_vars

\* C23 witness of the deferred settlement: the function returned a Future
\* that held no value, the frame was Completed with its result unsettled,
\* and the result has been settled since by the step that delivered the
\* value.
C23_DeferredWitness ==
    /\ frame.path = <<"Running", "Completed">> /\ ReturnedFuture(frame)
    /\ settled[frame.id] # <<>> /\ settled[frame.id][1].during # "Nested" /\ settled[frame.id][1].v = settled[frame.nested][1].v

\* C23 witness: a frame that went Running, Awaiting, Resuming, Running,
\* Completed.
C23_Witness == frame.path = <<"Running", "Awaiting", "Resuming", "Running", "Completed">> /\ settled[frame.id] # <<>>

\* C23 witness of the other terminal state.
C23_CancelledWitness == frame.path = <<"Running", "Awaiting", "Resuming", "Cancelled">> /\ settled[frame.id] = <<>>

\* C26: a call of the suspending function with a Future that holds a value
\* runs the code after the await with that value inside the call and
\* completes without ever being Awaiting; no callback is stored in any
\* Promise and no task is posted.  With a Future that holds no value the
\* frame is left Awaiting, has run nothing after the await, and its
\* continuation is the one callback of the Promise linked to that Future
\* (destroyed when there is no such Promise); no task is posted.
C26_ReadyAwaitDoesNotSuspend == [][
    (last'.op = "Coroutine" /\ crashed' = "none") =>
        /\ tasks' = tasks /\ calls' = calls
        /\ fut[last'.loc].value # <<>> =>
              /\ frame'.path = <<"Running", "Completed">>
              /\ frame'.after = <<fut[last'.loc].value[1]>>
              /\ \A p \in PPool : prom[p].live => prom'[p].callback = prom[p].callback
              /\ \A p \in PPool : prom'[p].callback # OnReadyCallback
        /\ fut[last'.loc].value = <<>> =>
              /\ frame'.path = <<"Running", "Awaiting">> /\ frame'.after = <<>>
              /\ \A p \in PPool : prom[p].live =>
                    prom'[p].callback = (IF p = fut[last'.loc].promise_ptr THEN OnReadyCallback ELSE prom[p].callback)
              /\ fut[last'.loc].promise_ptr # nullptr => prom[fut[last'.loc].promise_ptr].callback = NullCallback
    ]_vars

\* C26 witness: the function was called with a Future holding a value and
\* has completed inside the call, nothing posted, no callback stored.
C26_Witness ==
    /\ last.op = "Coroutine" /\ frame.path = <<"Running", "Completed">> /\ frame.after # <<>>
    /\ tasks = <<>> /\ \A p \in PPool : prom[p].callback = NullCallback

\* C26 witness of the other case: the frame is parked in the Promise of the
\* unsettled Future it awaits.
C26_ParkedWitness ==
    /\ last.op = "Coroutine" /\ frame.path = <<"Running", "Awaiting">>
    /\ Cardinality({p \in PPool : prom[p].live /\ prom[p].callback = OnReadyCallback}) = 1

\* The callables handed in for the result Future of the frame.
ResultConsumers == {k \in 1..Len(cbs) : cbs[k].src = frame.id}

\* Nothing is left through which the result of the frame could be set or a
\* callable of its result Future run: no Promise of the pair, no value in a
\* Future of the pair, no such callable in a Promise or in a task.
ResultAbandoned ==
    /\ settled[frame.id] = <<>>
    /\ \A p \in PPool : prom[p].live => prom[p].id # frame.id /\ prom[p].callback.k \notin ResultConsumers
    /\ \A f \in AllF : (fut[f].live /\ fut[f].id = frame.id) => fut[f].value = <<>> /\ fut[f].promise_ptr = nullptr
    /\ \A i \in 1..Len(tasks) : tasks[i].cb.k \notin ResultConsumers
    /\ \A k \in ResultConsumers : Calls(k) = {}

\* C27: from the step that cancels the frame on, its result is never set;
\* the frame's Promise is gone and with it every callable handed in for the
\* result Future, before or after: none is stored, posted or run; every
\* GetValueSynchronously on the result Future returns nothing.
C27_CancelledNeverSettles == [][
    (frame'.state = "Cancelled" /\ crashed' = "none") =>
        /\ ResultAbandoned'
        /\ frame.state = "Cancelled" => calls' = calls \/ \A i \in (Len(calls) + 1)..Len(calls') : calls'[i].k \notin ResultConsumers'
        /\ (last'.op = "GetValueSynchronously" /\ last'.id = frame'.id) => last'.ret = <<>>
    ]_vars

\* C27 witness: a callable was handed in for the result Future while the
\* frame was suspended; the step that has just run OnReady has cancelled
\* the frame, and the callable is gone without having run.
C27_Witness ==
    /\ frame.state = "Cancelled" /\ last.op \in {"SetValueWithSideEffects", "RunTask"}
    /\ \E k \in ResultConsumers : Calls(k) = {} /\ \A p \in PPool : prom[p].callback.k # k

\* C27 witness of the later reads: the frame is cancelled, the executor has
\* drained, a callable handed in has not run and GetValueSynchronously on
\* the result Future has just returned nothing.
C27_GetValueWitness ==
    /\ frame.state = "Cancelled" /\ Drained
    /\ \E k \in ResultConsumers : Calls(k) = {}
    /\ last.op = "GetValueSynchronously" /\ last.id = frame.id /\ last.ret = <<>>

\* The awaited pair can no longer be settled: its Promise is gone unsettled.
AwaitedAbandoned == frame.state = "Awaiting" /\ settled[frame.awaited] = <<>> /\ PromiseGone(frame.awaited)

\* C28: on a task runner that runs every posted task, a frame suspended on
\* a Future that has been settled reaches Completed or Cancelled (or the
\* process has aborted in a CHECK meanwhile); and a frame suspended on a
\* Future whose Promise has been destroyed unsettled stays Awaiting for
\* ever, having run nothing after the await and with its result unsettled.
C28_FrameTerminates ==
    /\ (frame.state = "Awaiting" /\ settled[frame.awaited] # <<>>) ~> (frame.state \in {"Completed", "Cancelled"} \/ crashed # "none")
    /\ [][AwaitedAbandoned => (AwaitedAbandoned' /\ frame'.after = <<>> /\ settled'[frame.id] = <<>>)]_vars

\* C28 witness: the frame was suspended, the awaited Future was settled
\* with SetValue, and the task runner has run the posted continuation to
\* the frame's end.
C28_Witness ==
    /\ frame.state \in {"Completed", "Cancelled"} /\ Len(frame.path) > 2 /\ last.op = "RunTask"
    /\ settled[frame.awaited] # <<>> /\ ~settled[frame.awaited][1].wse /\ crashed = "none"

\* C28 witness of the converse: the Promise of the awaited Future has just
\* been destroyed unsettled and the frame is suspended.
C28_AbandonedWitness == AwaitedAbandoned /\ last.op = "~Promise" /\ crashed = "none"

\* The task at the head of the queue is the lambda of return_value.
ReturnValueRuns == tasks # <<>> /\ Head(tasks).cb.kind = "CoroutinePromiseBase::return_value" /\ last'.op = "RunTask"

\* C24: the function `co_return std::move(future)` settles its result once,
\* with the value of the returned Future and with side effects: inside the
\* call when that Future holds a value, and otherwise in the step that hands
\* the value on (a SetValueWithSideEffects on the returned Future's Promise,
\* or the task a SetValue on it posted), never earlier and never again;
\* every callable handed in for the result Future before that step is run
\* inside that step, once, with the value, and is not posted.
C24_NestedFutureReturn == [][
    crashed' = "none" =>
        /\ (last'.op = "Nested" /\ fut[last'.loc].value # <<>>) =>
              settled'[frame'.id] = <<[v |-> fut[last'.loc].value[1], during |-> "Nested", wse |-> TRUE]>>
        /\ (last'.op = "Nested" /\ fut[last'.loc].value = <<>>) =>
              /\ settled'[frame'.id] = <<>> /\ tasks' = tasks
              /\ fut[last'.loc].promise_ptr # nullptr => prom'[fut[last'.loc].promise_ptr].callback.kind = "CoroutinePromiseBase::return_value"
        /\ (frame.state = "Completed" /\ settled[frame.id] # <<>>) => settled'[frame.id] = settled[frame.id]
        /\ (frame.state = "Completed" /\ settled[frame.id] = <<>> /\ settled'[frame.id] # <<>>) =>
              /\ settled'[frame.nested] # <<>> /\ settled'[frame.id][1].v = settled'[frame.nested][1].v /\ settled'[frame.id][1].wse
              /\ ReturnValueRuns \/ (last'.op = "SetValueWithSideEffects" /\ last'.id = frame.nested)
              /\ \A k \in ResultConsumers' :
                    /\ \E i \in (Len(calls) + 1)..Len(calls') : calls'[i].k = k /\ calls'[i].v = settled'[frame.id][1].v
                    /\ Cardinality({i \in 1..Len(calls') : calls'[i].k = k}) = 1
                    /\ \A i \in 1..Len(tasks') : tasks'[i].cb.k # k
        /\ (frame.state = "Completed" /\ settled[frame.id] = <<>> /\ (ReturnValueRuns \/ (last'.op = "SetValueWithSideEffects" /\ last'.id = frame.nested))) =>
              settled'[frame.id] # <<>>
        /\ (frame'.state = "Completed" /\ settled'[frame'.id] = <<>>) => \A k \in ResultConsumers' : \A i \in 1..Len(calls') : calls'[i].k # k
    ]_vars

\* C24 witness: the returned Future held no value at the call; a callable
\* was handed in for the result Future; a SetValue on the returned Future's
\* Promise posted the lambda, and the task that ran it has settled the
\* result and run the callable.
C24_Witness ==
    /\ frame.state = "Completed" /\ last.op = "RunTask" /\ settled[frame.id] # <<>> /\ settled[frame.id][1].during = "RunTask"
    /\ \E k \in ResultConsumers : \E i \in 1..Len(calls) : calls[i].k = k /\ calls[i].during = "RunTask" /\ calls[i].v = settled[frame.nested][1].v
    /\ tasks = <<>>

\* C24 witness of the other case: the returned Future held a value and the
\* result was settled inside the call.
C24_ReadyWitness == last.op = "Nested" /\ frame.state = "Completed" /\ settled[frame.id] # <<>> /\ settled[frame.id][1].v = settled[frame.nested][1].v

\* A value a Future holds is the value its own pair was settled with.
DeliveredWithinPair == \A f \in AllF : (fut[f].live /\ fut[f].value # <<>>) =>
    settled[fut[f].id] # <<>> /\ fut[f].value[1] = settled[fut[f].id][1].v

\* C25: in every state, after move-assignments onto linked Futures and
\* Promises too, a back-reference that is set names a live object of the
\* same pair whose back-reference names the holder; and a Future holds only
\* a value its own pair was settled with.
C25_BackReferenceSymmetry == BackReferencesAgree /\ DeliveredWithinPair

=============================================================================
